-------------------------------- MODULE HLV --------------------------------
(***************************************************************************)
(* Hybrid logical vectors, the version vectors that Sync Gateway keeps     *)
(* with every copy of a document (sg_model.py, first half).                *)
(*                                                                         *)
(* A vector names the current version (the source and number of the write  *)
(* that produced the body) and the previous versions, one number per       *)
(* source that the copy has seen.  The number 0 stands for "no entry":     *)
(* every version that the program produces is positive.  The merge         *)
(* versions of the source (its fourth component) come only from merge      *)
(* resolvers, which sg_model.py leaves out; they are empty in every state  *)
(* and are left out here, with the branches that need one.                 *)
(***************************************************************************)
EXTENDS Integers

CONSTANT Source    \* the identities that stamp versions, one per gateway

Vector == [Source -> Nat]

HLVs == [src : Source, ver : Nat, pv : Vector]

Larger(m, n) == IF m >= n THEN m ELSE n

\* get_value: the newest version of source s that the vector h has seen.
Value(h, s) == IF s = h.src THEN h.ver ELSE h.pv[s]

\* The whole vector as a function, and the order of such functions.
Knowledge(h) == [s \in Source |-> Value(h, s)]

\* dominates_source(h, cv(g)): h has seen the current version of g.
DominatesCV(h, g) == Value(h, g.src) >= g.ver

SameCV(h, g) == h.src = g.src /\ h.ver = g.ver

\* AddVersion: a local write by s makes v current; the version that was
\* current moves into the history when another source wrote it.
AddVersion(h, s, v) ==
    IF s = h.src
    THEN [h EXCEPT !.ver = v]
    ELSE [src |-> s, ver |-> v,
          pv  |-> [h.pv EXCEPT ![h.src] = h.ver, ![s] = 0]]

\* (Mutation: entries are replaced, not raised.)
SetPV(h, seen) ==
    [h EXCEPT !.pv = [s \in Source |-> IF s = h.src THEN h.pv[s] ELSE seen[s]]]

\* AddVersionToPV, for every source of `seen' at once: the entry of the
\* current source is never touched, not even by a newer version of it.
AddToPV(h, seen) ==
    [h EXCEPT !.pv = [s \in Source |-> IF s = h.src THEN h.pv[s]
                                       ELSE Larger(h.pv[s], seen[s])]]

\* (Mutation: the current version of g is left out.)
HistoryOnly(h, g) == AddToPV(h, g.pv)

\* UpdateHistory: h takes the current version of g, then its history.
UpdateHistory(h, g) ==
    AddToPV(AddToPV(h, [s \in Source |-> IF s = g.src THEN g.ver ELSE 0]), g.pv)

\* h.UpdateWithIncomingHLV(g): g stays current, with the history of both.
UpdateWithIncoming(h, g) == UpdateHistory(g, h)

(***************************************************************************)
(* IsInConflict.  The three verdicts exclude each other, and the order of  *)
(* the tests matters: equal current versions are "already present" before  *)
(* either side is asked whether it dominates the other.                    *)
(***************************************************************************)
Supersedes(local, incoming) ==
    ~ SameCV(local, incoming) /\ DominatesCV(incoming, local)

AlreadyPresent(local, incoming) ==
    \/ SameCV(local, incoming)
    \/ ~ DominatesCV(incoming, local) /\ DominatesCV(local, incoming)

InConflict(local, incoming) ==
    ~ Supersedes(local, incoming) /\ ~ AlreadyPresent(local, incoming)
=============================================================================
