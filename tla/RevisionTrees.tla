---------------------------- MODULE RevisionTrees -----------------------------
(***************************************************************************)
(* Revision trees, as couch_model.py and pouch_model.py keep them for one  *)
(* document, and how CouchDB and PouchDB take in a replicated document:    *)
(* merge its path into the trees, then cut every branch to the limit.      *)
(*                                                                         *)
(* A revision has one parent in the history of the document, so a tree is  *)
(* the set of the revisions in it: its shape is theirs.  Of the values at  *)
(* the nodes only the deletion of a leaf is ever looked at.                *)
(*                                                                         *)
(* Documents arrive in any order and any number of times at a database of  *)
(* one of four kinds: the three of compute.py, and CouchDB's without the   *)
(* validation of leaves (couch_model_posthoc.py).                          *)
(***************************************************************************)
EXTENDS Integers, Sequences, FiniteSets, SequencesExt

CONSTANTS Rev,        \* revision ids: numbers, in the order of the ids
          Parent,     \* the parent of each revision, or NoRev
          Deleted,    \* the revisions that are deletions
          Scenarios   \* the documents that are sent, and the limit

NoRev == 0

ASSUME RevAssumption == Rev \subseteq Nat \ {NoRev}
ASSUME ParentAssumption ==
    \A r \in Rev : Parent[r] \in Rev \cup {NoRev} /\ Parent[r] < r
ASSUME DeletedAssumption == Deleted \subseteq Rev

\* The revision and all it descends from.
Lineage[r \in Rev] ==
    {r} \cup (IF Parent[r] = NoRev THEN {} ELSE Lineage[Parent[r]])

\* The generation of a revision: the number in front of its id.
Pos(r) == Cardinality(Lineage[r])

(***************************************************************************)
(* Replicated documents: a revision with the last entries of its history.  *)
(***************************************************************************)
Document(r, length) ==
    [rev |-> r, ids |-> {x \in Lineage[r] : Pos(x) > Pos(r) - length}]

\* What a source that has never stemmed sends, and one that keeps no more
\* than so many entries may send.
FullHistories(rs) == {Document(r, Pos(r)) : r \in rs}

HistoriesUpTo(rs, length) ==
    {Document(r, l) : r \in rs, l \in 1 .. length}

IsFull(doc) == doc.ids = Lineage[doc.rev]

IsDocument(doc) ==
    doc.rev \in Rev /\ \E l \in 1 .. Pos(doc.rev) : doc = Document(doc.rev, l)

ASSUME ScenarioAssumption ==
    \A s \in Scenarios :
        s.limit \in Nat \ {0} /\ \A doc \in s.docs : IsDocument(doc)

(***************************************************************************)
(* Trees and forests (the trees of a document, whose roots all differ).    *)
(***************************************************************************)
Root(tree) == CHOOSE r \in tree : Parent[r] \notin tree

LeavesOf(tree) == {r \in tree : \A x \in tree : Parent[x] # r}

Leaves(forest) == UNION {LeavesOf(tree) : tree \in forest}

Nodes(forest) == UNION forest

\* (Mutation: the cut keeps the end at the root.)
CutsTheLeaf(tree, leaf, limit) ==
    LET path == tree \cap Lineage[leaf]
    IN  {r \in path : Pos(r) < Pos(Root(path)) + limit}

\* The path from a leaf towards the root, cut after so many revisions.
Branch(tree, leaf, limit) ==
    {r \in tree \cap Lineage[leaf] : Pos(r) > Pos(leaf) - limit}

Branches(tree, limit) == {Branch(tree, l, limit) : l \in LeavesOf(tree)}

\* The order in which trees are kept.
Before(t, u) ==
    \/ Pos(Root(t)) < Pos(Root(u))
    \/ Pos(Root(t)) = Pos(Root(u)) /\ Root(t) < Root(u)

\* What a tree becomes when a path has been cut out of it.
Components(rs) ==
    LET top(r) == CHOOSE x \in Lineage[r] \cap rs :
                      /\ Parent[x] \notin rs
                      /\ \A y \in Lineage[r] \ Lineage[x] : y \in rs
    IN  {{r \in rs : top(r) = x} : x \in {r \in rs : Parent[r] \notin rs}}

(***************************************************************************)
(* What a reader is shown: the winning leaf, and whether there is a        *)
(* document at all.                                                        *)
(***************************************************************************)
Better(r, s) ==
    LET live(x) == x \notin Deleted IN
    \/ live(r) /\ ~live(s)
    \/ live(r) = live(s) /\ Pos(r) > Pos(s)
    \/ live(r) = live(s) /\ Pos(r) = Pos(s) /\ r >= s

Winner(forest) ==
    CHOOSE r \in Leaves(forest) : \A s \in Leaves(forest) : Better(r, s)

Live(forest) == forest # {} /\ Winner(forest) \notin Deleted


(***************************************************************************)
(* CouchDB.  A path is merged into the first tree it meets: one whose root *)
(* is on the path, or that holds the start of the path.                    *)
(***************************************************************************)
Meets(tree, path) == Root(tree) \in path \/ Root(path) \in tree

\* (Mutation: the path is merged into every tree it meets.)
JoinsAll(forest, path) ==
    LET met == {t \in forest : Meets(t, path)} IN
    (forest \ met) \cup {path \cup UNION met}

CouchMerge(forest, path) ==
    LET met == {t \in forest : Meets(t, path)} IN
    IF met = {} THEN forest \cup {path}
    ELSE LET t == CHOOSE u \in met : \A v \in met \ {u} : Before(u, v)
         IN  (forest \ {t}) \cup {t \cup path}

\* One revision in two trees: the trees are taken apart and built again.
Overlapping(forest) ==
    \E t, u \in forest : t # u /\ t \cap u # {}

\* Two paths compare by the generation of their first revision, then from the
\* leaf: and the leaf tells them apart, since all before it is its history.
Tip(path) == CHOOSE r \in path : path \subseteq Lineage[r]

PathBefore(p, q) ==
    \/ Pos(Root(p)) < Pos(Root(q))
    \/ Pos(Root(p)) = Pos(Root(q)) /\ Tip(p) < Tip(q)

CouchRepair(forest, limit) ==
    LET paths == UNION {Branches(t, limit) : t \in forest}
        merged[S \in SUBSET paths] ==
            IF S = {} THEN {}
            ELSE LET p == CHOOSE q \in S : \A o \in S \ {q} : PathBefore(o, q)
                 IN  CouchMerge(merged[S \ {p}], p)
    IN  merged[paths]

\* (Mutation: every branch loses one revision more.)
StemsTooDeep(forest, limit) ==
    UNION {Components(UNION Branches(t, limit - 1)) : t \in forest}

CouchStem(forest, limit) ==
    IF Overlapping(forest) THEN CouchRepair(forest, limit)
    ELSE UNION {Components(UNION Branches(t, limit)) : t \in forest}

\* A database that validates ignores what is no new leaf.
NoNewLeaf(forest, doc) ==
    /\ forest # {}
    /\ \/ doc.rev \notin Leaves(CouchMerge(forest, doc.ids))
       \/ doc.rev \in Leaves(forest)

CouchUnvalidated(forest, doc, limit) ==
    CouchStem(CouchMerge(forest, doc.ids), limit)

\* (Mutation: only what is a leaf already is ignored.)
TakesInnerRevisions(forest, doc, limit) ==
    IF doc.rev \in Leaves(forest) THEN forest
    ELSE CouchUnvalidated(forest, doc, limit)

CouchUpdate(forest, doc, limit) ==
    IF NoNewLeaf(forest, doc) THEN forest
    ELSE CouchUnvalidated(forest, doc, limit)

\* With stem_interactive_updates off: compaction stems.
CouchRawUpdate(forest, doc) ==
    IF NoNewLeaf(forest, doc) THEN forest ELSE CouchMerge(forest, doc.ids)

(***************************************************************************)
(* PouchDB.  A path starts in a tree, which then takes what the tree lacks *)
(* of it, or is taken over by the path with the tree on it.  The trees on  *)
(* one path are grafted in turn onto the path itself, in place, so that    *)
(* each of them ends up as all of it.                                      *)
(***************************************************************************)
OnPath(tree, path) ==
    /\ Root(tree) \in path
    /\ Root(tree) # Root(path)
    /\ Pos(Root(tree)) >= Pos(Root(path))

PouchMerge(forest, path) ==
    LET grafted[S \in SUBSET forest] ==
            IF S = {} THEN path
            ELSE LET t == CHOOSE u \in S : \A v \in S \ {u} : Before(v, u)
                     p == grafted[S \ {t}]
                 IN  IF OnPath(t, p) THEN p \cup t ELSE p
        full == grafted[forest]
        below(r, new) == Lineage[r] \cap new # {}
        merged(t) ==
            IF Root(path) \in t THEN t \cup {r \in full : below(r, path \ t)}
            ELSE IF Root(t) \in full THEN full
            ELSE t
        met == {t \in forest : Root(path) \in t \/ Root(t) \in full}
    IN  {merged(t) : t \in forest} \cup (IF met = {} THEN {path} ELSE {})

\* The cut branches, joined where they start at the same revision.
PouchStem(forest, limit) ==
    LET branches == UNION {Branches(t, limit) : t \in forest}
    IN  {UNION {b \in branches : Root(b) = r} : r \in {Root(b) : b \in branches}}

PouchUpdate(forest, doc, limit) ==
    IF doc.rev \in Nodes(forest) THEN forest
    ELSE PouchStem(PouchMerge(forest, doc.ids), limit)

(***************************************************************************)
(* A document under replication.                                           *)
(***************************************************************************)
Servers == {"couch", "couch, not validating", "couch, raw", "pouch"}

VARIABLES scenario, server,
          forest,       \* the trees of the document
          order,        \* the documents that have arrived, as they first did
          again         \* whether one has come again after another one had

vars == <<scenario, server, forest, order, again>>

Update(trees, doc) ==
    CASE server = "couch" -> CouchUpdate(trees, doc, scenario.limit)
      [] server = "couch, not validating" ->
             CouchUnvalidated(trees, doc, scenario.limit)
      [] server = "couch, raw" -> CouchRawUpdate(trees, doc)
      [] server = "pouch" -> PouchUpdate(trees, doc, scenario.limit)

Init ==
    /\ scenario \in Scenarios
    /\ server \in Servers
    /\ forest = {}
    /\ order = <<>>
    /\ again = FALSE

Arrives(doc) ==
    /\ forest' = Update(forest, doc)
    /\ IF Contains(order, doc)
       THEN /\ again' = (again \/ doc # Last(order))
            /\ UNCHANGED order
       ELSE /\ order' = Append(order, doc)
            /\ UNCHANGED again
    /\ UNCHANGED <<scenario, server>>

Next == \E doc \in scenario.docs : Arrives(doc)

Spec == Init /\ [][Next]_vars

Delivered == {order[i].rev : i \in DOMAIN order}

\* What no delivered revision descends from.
Heads == {r \in Delivered : \A s \in Delivered \ {r} : r \notin Lineage[s]}

AllArrived == Len(order) = Cardinality(scenario.docs)

Full == \A doc \in scenario.docs : IsFull(doc)

\* What a compaction leaves.
Compacted ==
    IF server = "couch, raw" THEN CouchStem(forest, scenario.limit) ELSE forest

(***************************************************************************)
(* No database loses a write: whatever was cut off and whatever came back, *)
(* the delivered revisions that nothing delivered descends from are leaves *)
(* and all leaves were delivered, each the leaf of one tree.               *)
(***************************************************************************)
WritesSurvive ==
    \A trees \in {forest, Compacted} :
        Heads \subseteq Leaves(trees) /\ Leaves(trees) \subseteq Delivered

EachInOneTree ==
    \A trees \in {forest, Compacted} :
        \A t, u \in trees : t # u => LeavesOf(t) \cap LeavesOf(u) = {}

HeadsSurvive == WritesSurvive /\ EachInOneTree

(***************************************************************************)
(* A document delivered twice in a row changes nothing the second time,    *)
(* unless CouchDB merges what it has not checked to be new.                *)
(***************************************************************************)
RepeatChangesNothing ==
    [][server # "couch, not validating" =>
          \A doc \in scenario.docs :
              Arrives(doc) => Update(forest', doc) = forest']_vars

(***************************************************************************)
(* P3, claim 2, for every history and in the middle of it as well: stemmed *)
(* once, after complete histories have been merged, CouchDB shows exactly  *)
(* the heads; and so does every database whose limit no branch reaches.    *)
(***************************************************************************)
StemmedLateIsExact ==
    Full /\ (server = "couch, raw" \/ \A r \in Rev : Pos(r) <= scenario.limit)
        => Leaves(Compacted) = Heads
===============================================================================
