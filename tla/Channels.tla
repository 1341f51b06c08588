------------------------------ MODULE Channels ------------------------------
(***************************************************************************)
(* Propagation over channels (ProjectionChannels.v): a source snapshots    *)
(* its state and sends it as a projection with a version; the projections  *)
(* in flight to a target arrive in any order, late, or more than once.     *)
(* The versioned merge refuses one that is not newer than the last applied *)
(* from the channel, the plain merge applies whatever arrives.  A final    *)
(* round sends every target, in topological order, the current state, and  *)
(* delivers it; what was in flight before may still arrive at any time.    *)
(*                                                                         *)
(* Versions to one target increase in send order (disc), so no two         *)
(* projections in flight to it are equal and a set stands for the list.    *)
(* A snapshot keeps only what its target reads.                            *)
(***************************************************************************)
EXTENDS Propagation

CONSTANT
    MaxVersion      \* bound: the versions sent before the final round

ASSUME MaxVersionType == MaxVersion \in Nat

VARIABLES
    versioned,   \* MergeProjectionAfter (TRUE) or MergeProjection, for a whole run
    cb,          \* per target, the projections in flight
    cl,          \* per target, the version of the last projection applied
    cv,          \* per target, the version of the last projection sent
    round        \* how many targets the final round has served

vars == <<versioned, cs, cb, cl, cv, round, performed>>

Messages(j) == [version : Nat, snapshot : StatesOf(Sources[j])]

-----------------------------------------------------------------------------
(* Before the final round.                                                 *)

Perform(e) ==
    /\ round = 0
    /\ LocalEvent(e)
    /\ UNCHANGED <<versioned, cb, cl, cv, round>>

\* The version discipline: above every version sent to j before.
NextVersions(j) == (cv[j] + 1)..MaxVersion

Send(j) ==
    /\ round = 0
    /\ \E v \in NextVersions(j) :
          /\ cb' = [cb EXCEPT ![j] = @ \cup
                       {[version |-> v, snapshot |-> Project(j, cs)]}]
          /\ cv' = [cv EXCEPT ![j] = v]
    /\ UNCHANGED <<versioned, cs, cl, round, performed>>

-----------------------------------------------------------------------------
(* Deliveries, at any time.                                                *)

\* (Mutation: the version of the last projection applied counts as newer.)
NotOlder(j, m) == versioned => m.version >= cl[j]

Applies(j, m) == versioned => m.version > cl[j]

\* (Mutation: the version applied is not recorded.)
Unrecorded(j, v) == cl' = cl

Recorded(j, v) == cl' = IF versioned THEN [cl EXCEPT ![j] = v] ELSE cl

Merge(j, m) ==
    \/ /\ Applies(j, m)
       /\ cs' = [cs EXCEPT ![j] = f(j, m.snapshot, @)]
       /\ Recorded(j, m.version)
    \/ /\ ~ Applies(j, m)
       /\ UNCHANGED <<cs, cl>>

Deliver(j, m) ==
    /\ Merge(j, m)
    /\ cb' = [cb EXCEPT ![j] = @ \ {m}]
    /\ UNCHANGED <<versioned, cv, round, performed>>

\* Delivered, and kept: it can arrive again.
Duplicate(j, m) ==
    /\ Merge(j, m)
    /\ UNCHANGED <<versioned, cb, cv, round, performed>>

-----------------------------------------------------------------------------
(* The final round (fround): a send, and its delivery, one target at a time. *)

\* (Mutation: the final projection reuses the last version sent.)
SameVersion(j) == cv[j]

FreshVersion(j) == cv[j] + 1

FinalRound ==
    /\ round < Len(Order)
    /\ LET j == Order[round + 1]
           v == FreshVersion(j)
       IN  /\ Merge(j, [version |-> v, snapshot |-> Project(j, cs)])
           /\ cv' = [cv EXCEPT ![j] = v]
    /\ round' = round + 1
    /\ UNCHANGED <<versioned, cb, performed>>

-----------------------------------------------------------------------------
Init ==
    /\ versioned \in BOOLEAN
    /\ DistInit
    /\ cb = [j \in Registry |-> {}]
    /\ cl = [j \in Registry |-> 0]
    /\ cv = [j \in Registry |-> 0]
    /\ round = 0

Next ==
    \/ \E e \in Event : Perform(e)
    \/ \E j \in Registry : \/ Send(j)
                           \/ \E m \in cb[j] : Deliver(j, m) \/ Duplicate(j, m)
    \/ FinalRound

Spec == Init /\ [][Next]_vars

-----------------------------------------------------------------------------
TypeOK ==
    /\ versioned \in BOOLEAN
    /\ cs \in States
    /\ DOMAIN cb = Registry /\ \A j \in Registry : cb[j] \subseteq Messages(j)
    /\ cl \in [Registry -> Nat]
    /\ cv \in [Registry -> Nat]
    /\ round \in 0..Len(Order)
    /\ performed \in [Event -> Nat]

\* No version applied or in flight is above the last one sent.
VInv ==
    \A j \in Registry : /\ cl[j] <= cv[j]
                        /\ \A m \in cb[j] : m.version <= cv[j]

Served == {Order[i] : i \in 1..round}

\* What is in flight to a target that the final round has served is stale,
\* and refused whenever it arrives.
StaleRefused ==
    versioned => \A j \in Served : \A m \in cb[j] : ~ Applies(j, m)

\* A target that the final round has served agrees with its sources, however
\* the projections still in flight arrive.
ServedSettled ==
    versioned => \A j \in Served : cs[j] = f(j, cs, cs[j])

\* DistConv and ImplementsFed hold of the channels too, in either merge mode:
\* runs with the same events agree once propagation is completed from
\* outside, and a send, a delivery, a duplicate and the final round are no
\* steps of the federated machine.

\* With the versioned merge such runs agree after the final round, as they are.
SettleConv ==
    versioned /\ round = Len(Order) => cs = runF(Listing(performed), N(Start))
=============================================================================
