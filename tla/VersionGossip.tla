---------------------------- MODULE VersionGossip ---------------------------
(***************************************************************************)
(* What the version vectors of a replication promise, with no document, no *)
(* conflict and no checkpoint: every gateway knows some versions of every  *)
(* source, it stamps versions of its own, and it learns from copies of     *)
(* what others knew, which the network may delay, reorder, repeat or lose. *)
(* ISGR implements this when tombstones, too, are tested for dominance.    *)
(***************************************************************************)
EXTENDS Integers

CONSTANT Source

VARIABLES
    know,   \* per gateway, the newest version of each source it has seen
    wire    \* the copies of such vectors under way

gossipVars == <<know, wire>>

Join(v, w) == [s \in Source |-> IF v[s] >= w[s] THEN v[s] ELSE w[s]]

\* A gateway stamps a version: only its own entry moves, and it grows.
Write(g) ==
    /\ know'[g][g] > know[g][g]
    /\ know' = [know EXCEPT ![g][g] = know'[g][g]]
    /\ wire' = wire

Copy(g) ==
    /\ wire' = wire \cup {know[g]}
    /\ know' = know

\* The copy may stay on the wire when another replication carries it too.
Taken(w) == wire' \in {wire, wire \ {w}}

Learn(g, w) ==
    /\ know' = [know EXCEPT ![g] = Join(know[g], w)]
    /\ Taken(w)

Drop(w) ==
    /\ know' = know
    /\ Taken(w)

Init ==
    /\ know \in [Source -> [Source -> Nat]]
    /\ \A g, h \in Source : know[g] = know[h]
    /\ wire = {}

Next ==
    \/ \E g \in Source : Write(g) \/ Copy(g) \/ \E w \in wire : Learn(g, w)
    \/ \E w \in wire : Drop(w)

Spec == Init /\ [][Next]_gossipVars
=============================================================================
