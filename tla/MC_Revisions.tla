---------------------------- MODULE MC_Revisions ------------------------------
(***************************************************************************)
(* The scenarios of compute.py, and what P3 claims of the first.           *)
(***************************************************************************)
EXTENDS RevisionTrees

\* The scenarios of compute.py; and S1 and S3 with limits that cut earlier or
\* not at all.  Revision 4 is the deletion.
Ids == 1 .. 5
ParentOf == <<0, 1, 2, 3, 2>>
Deletions == {4}

S1 == [docs |-> FullHistories(1 .. 4), limit |-> 3]
S2 == [docs |-> HistoriesUpTo(1 .. 4, 2), limit |-> 2]
S3 == [docs |-> FullHistories(1 .. 5), limit |-> 2]

AllScenarios == {S1, S2, S3, [S1 EXCEPT !.limit = 2], [S3 EXCEPT !.limit = 4]}

\* A document and the one it must not come after.
Index(r) == CHOOSE i \in DOMAIN order : order[i].rev = r

(***************************************************************************)
(* P3, claims 1 and 3: a deleted document of generation 4 with a limit of  *)
(* 3 is there again in CouchDB exactly when its first revision came last,  *)
(* and in PouchDB exactly when it came after the deletion.                 *)
(***************************************************************************)
ResurrectionOrders ==
    scenario = S1 /\ AllArrived /\ ~again =>
        CASE server \in {"couch", "couch, not validating"} ->
                 Live(forest) <=> Index(1) = 4
          [] server = "couch, raw" -> ~Live(Compacted)
          [] server = "pouch" -> Live(forest) <=> Index(1) > Index(4)
===============================================================================
