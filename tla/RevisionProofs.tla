--------------------------- MODULE RevisionProofs ----------------------------
(***************************************************************************)
(* For every history of revisions, every set of documents, every limit and *)
(* all four databases: no write is lost.                                   *)
(*                                                                         *)
(* The argument.  Every tree has one root and, with a revision, all its    *)
(* history down from the root (RootedAt).  Merging and cutting keep that,  *)
(* never drop a leaf, and make none but the last revision of the arriving  *)
(* path (Shown).  A head that is anywhere in the trees is a leaf, because  *)
(* what stands below it would have to be part of a delivered history.      *)
(***************************************************************************)
EXTENDS RevisionTrees, FiniteSetTheorems, WellFoundedInduction, TLAPS

LEMMA LeastElement ==
    ASSUME NEW T, T \subseteq Nat, T # {}
    PROVE  \E x \in T : \A y \in T : x <= y
<1>1. OpToRel(<, Nat) = {p \in Nat \X Nat : p[1] < p[2]}
  BY DEF OpToRel
<1>2. PICK x \in T : \A y \in T : ~ (<<y, x>> \in OpToRel(<, Nat))
  BY WFMin, NatLessThanWellFounded
<1>3. \A y \in T : ~ (<<y, x>> \in {p \in Nat \X Nat : p[1] < p[2]})
  BY <1>1, <1>2, Zenon
<1>4. ASSUME NEW y \in T PROVE ~ (y < x)
  <2>1. ~ (<<y, x>> \in {p \in Nat \X Nat : p[1] < p[2]})
    BY <1>3
  <2>2. <<y, x>> \in Nat \X Nat /\ <<y, x>>[1] = y /\ <<y, x>>[2] = x
    OBVIOUS
  <2>3. QED
    BY <2>1, <2>2
<1>5. QED
  BY <1>4

-----------------------------------------------------------------------------
(* Lineages.                                                               *)

LEMMA RevType ==
    ASSUME NEW r \in Rev
    PROVE  /\ r \in Nat /\ r # NoRev
           /\ Parent[r] \in Rev \cup {NoRev}
           /\ Parent[r] \in Nat /\ Parent[r] < r
<1>1. r \in Nat /\ r # 0
  BY RevAssumption DEF NoRev
<1>2. Parent[r] \in Rev \cup {NoRev} /\ Parent[r] < r
  BY ParentAssumption
<1>3. Parent[r] \in Nat
  <2>1. CASE Parent[r] \in Rev
    <3> DEFINE q == Parent[r]
    <3>1. q \in Rev
      BY <2>1
    <3> HIDE DEF q
    <3>2. q \in Nat
      BY <3>1, RevAssumption
    <3>3. QED
      BY <3>2 DEF q
  <2>2. CASE Parent[r] = NoRev
    BY <2>2 DEF NoRev
  <2>3. QED
    BY <1>2, <2>1, <2>2
<1>4. QED
  BY <1>1, <1>2, <1>3 DEF NoRev

HoldsParents(S) == \A y \in S : Parent[y] = NoRev \/ Parent[y] \in S

\* The smallest set with r that holds the parents of its members.
Ancestors(r) ==
    {x \in Rev : \A S \in SUBSET Rev : r \in S /\ HoldsParents(S) => x \in S}

LEMMA AncestorsStep ==
    ASSUME NEW r \in Rev
    PROVE  Ancestors(r) =
               {r} \cup (IF Parent[r] = NoRev THEN {} ELSE Ancestors(Parent[r]))
<1> DEFINE A == {r} \cup (IF Parent[r] = NoRev THEN {} ELSE Ancestors(Parent[r]))
<1>1. ASSUME NEW q \in Rev PROVE HoldsParents(Ancestors(q))
  BY RevType DEF HoldsParents, Ancestors
<1>2. Parent[r] # NoRev => Parent[r] \in Rev /\ Parent[r] \in Ancestors(Parent[r])
  BY RevType DEF Ancestors
<1>3. HoldsParents(A)
  <2>1. CASE Parent[r] = NoRev
    BY <2>1 DEF HoldsParents
  <2>2. CASE Parent[r] # NoRev
    <3>1. HoldsParents(Ancestors(Parent[r]))
      BY <1>1, <1>2, <2>2
    <3>2. QED
      BY <1>2, <2>2, <3>1 DEF HoldsParents
  <2>3. QED
    BY <2>1, <2>2
<1>4. r \in A /\ A \in SUBSET Rev
  BY DEF Ancestors
<1>5. Ancestors(r) \subseteq A
  <2> HIDE DEF A
  <2>1. QED
    BY <1>3, <1>4 DEF Ancestors
<1>6. r \in Ancestors(r)
  BY DEF Ancestors
<1>7. ASSUME Parent[r] # NoRev, NEW x \in Ancestors(Parent[r])
      PROVE  x \in Ancestors(r)
  BY <1>7, RevType DEF Ancestors, HoldsParents
<1>8. QED
  BY <1>5, <1>6, <1>7

IsLineage(L) ==
    L = [r \in Rev |->
            {r} \cup (IF Parent[r] = NoRev THEN {} ELSE L[Parent[r]])]

LEMMA LineageStep ==
    ASSUME NEW r \in Rev
    PROVE  Lineage[r] = {r} \cup (IF Parent[r] = NoRev THEN {} ELSE Lineage[Parent[r]])
<1> DEFINE L == [q \in Rev |-> Ancestors(q)]
<1>1. IsLineage(L)
  <2>1. ASSUME NEW q \in Rev
        PROVE  L[q] = {q} \cup (IF Parent[q] = NoRev THEN {} ELSE L[Parent[q]])
    BY RevType, AncestorsStep
  <2>2. QED
    BY <2>1 DEF IsLineage
<1>2. Lineage = CHOOSE f : IsLineage(f)
  BY DEF Lineage, IsLineage
<1>3. IsLineage(Lineage)
  <2> HIDE DEF L
  <2>1. QED
    BY <1>1, <1>2
<1>4. QED
  BY <1>3 DEF IsLineage

LEMMA LineageType ==
    ASSUME NEW r \in Rev
    PROVE  /\ Lineage[r] \subseteq Rev
           /\ r \in Lineage[r]
           /\ \A x \in Lineage[r] : x <= r
           /\ IsFiniteSet(Lineage[r])
<1> DEFINE Good(q) == /\ Lineage[q] \subseteq Rev
                      /\ q \in Lineage[q]
                      /\ \A x \in Lineage[q] : x <= q
                      /\ IsFiniteSet(Lineage[q])
           Bad == {q \in Rev : ~ Good(q)}
<1>1. SUFFICES ASSUME Bad # {} PROVE FALSE
  OBVIOUS
<1>2. Bad \subseteq Nat
  BY RevType
<1>3. PICK q \in Bad : \A y \in Bad : q <= y
  <2> HIDE DEF Bad
  <2>1. QED
    BY <1>1, <1>2, LeastElement
<1>4. CASE Parent[q] = NoRev
  <2>1. Lineage[q] = {q}
    BY <1>4, LineageStep
  <2>2. IsFiniteSet(Lineage[q])
    BY <2>1, FS_Singleton
  <2>3. q \in Rev /\ q <= q
    BY RevType
  <2>4. QED
    BY <2>1, <2>2, <2>3
<1>5. CASE Parent[q] # NoRev
  <2>1. Parent[q] \in Rev /\ Parent[q] < q /\ Parent[q] \in Nat /\ q \in Nat
    BY <1>5, RevType
  <2>2. Parent[q] \notin Bad
    BY <1>3, <2>1
  <2>3. Good(Parent[q])
    BY <2>1, <2>2
  <2>4. Lineage[q] = Lineage[Parent[q]] \cup {q}
    BY <1>5, LineageStep
  <2>5. IsFiniteSet(Lineage[q])
    BY <2>3, <2>4, FS_AddElement
  <2>6. \A x \in Lineage[q] : x <= q
    BY <2>1, <2>3, <2>4, RevType
  <2>7. QED
    BY <2>3, <2>4, <2>5, <2>6
<1>6. QED
  BY <1>4, <1>5

\* What stands above a revision, apart from itself, stands above its parent.
LEMMA AboveParent ==
    ASSUME NEW r \in Rev, NEW x \in Lineage[r], x # r
    PROVE  Parent[r] \in Rev /\ x \in Lineage[Parent[r]] /\ Parent[r] \in Lineage[r]
BY RevType, LineageStep, LineageType

LEMMA ParentAbove ==
    ASSUME NEW r \in Rev, Parent[r] # NoRev
    PROVE  Parent[r] \in Rev /\ Parent[r] \in Lineage[r]
           /\ Lineage[r] = {r} \cup Lineage[Parent[r]]
BY RevType, LineageStep, LineageType

LEMMA LineageWithin ==
    ASSUME NEW r \in Rev, NEW y \in Lineage[r]
    PROVE  y \in Rev /\ Lineage[y] \subseteq Lineage[r]
<1> DEFINE Bad == {q \in Rev : \E z \in Lineage[q] : ~ (Lineage[z] \subseteq Lineage[q])}
<1>1. y \in Rev
  BY LineageType
<1>2. SUFFICES ASSUME Bad # {} PROVE FALSE
  BY <1>1
<1>3. Bad \subseteq Nat
  BY RevType
<1>4. PICK q \in Bad : \A z \in Bad : q <= z
  <2> HIDE DEF Bad
  <2>1. QED
    BY <1>2, <1>3, LeastElement
<1>5. PICK z \in Lineage[q] : ~ (Lineage[z] \subseteq Lineage[q])
  OBVIOUS
<1>6. z # q
  BY <1>5
<1>7. Parent[q] \in Rev /\ z \in Lineage[Parent[q]]
  BY <1>5, <1>6, AboveParent
<1>8. Parent[q] \notin Bad
  BY <1>4, <1>7, RevType
<1>9. Lineage[z] \subseteq Lineage[Parent[q]]
  BY <1>7, <1>8
<1>10. Lineage[Parent[q]] \subseteq Lineage[q]
  BY <1>7, LineageStep, RevType
<1>11. QED
  BY <1>5, <1>9, <1>10

\* A history is a chain.
LEMMA LineageChain ==
    ASSUME NEW r \in Rev, NEW x \in Lineage[r], NEW y \in Lineage[r]
    PROVE  x \in Lineage[y] \/ y \in Lineage[x]
<1> DEFINE Apart(q) == \E u, v \in Lineage[q] : u \notin Lineage[v] /\ v \notin Lineage[u]
           Bad == {q \in Rev : Apart(q)}
<1>1. SUFFICES ASSUME Bad # {} PROVE FALSE
  OBVIOUS
<1>2. Bad \subseteq Nat
  BY RevType
<1>3. PICK q \in Bad : \A z \in Bad : q <= z
  <2> HIDE DEF Bad
  <2>1. QED
    BY <1>1, <1>2, LeastElement
<1>4. PICK u, v \in Lineage[q] : u \notin Lineage[v] /\ v \notin Lineage[u]
  OBVIOUS
<1>5. u # q /\ v # q
  BY <1>4
<1>6. Parent[q] \in Rev /\ u \in Lineage[Parent[q]] /\ v \in Lineage[Parent[q]]
  BY <1>4, <1>5, AboveParent
<1>7. Parent[q] \in Bad
  BY <1>4, <1>6
<1>8. QED
  BY <1>3, <1>6, <1>7, RevType

LEMMA LineageOrder ==
    ASSUME NEW x \in Rev, NEW y \in Rev, x \in Lineage[y], y \in Lineage[x]
    PROVE  x = y
BY LineageType, RevType

\* The next revision on the way down from x to r.
LEMMA NextBelow ==
    ASSUME NEW r \in Rev, NEW x \in Lineage[r], x # r
    PROVE  \E c \in Lineage[r] : c \in Rev /\ Parent[c] = x /\ x \in Lineage[c]
<1> DEFINE Bad == {q \in Lineage[r] : x \in Lineage[q] /\ x # q}
<1>1. r \in Bad
  BY LineageType
<1>2. Bad \subseteq Nat
  BY LineageType, RevType
<1>3. PICK c \in Bad : \A z \in Bad : c <= z
  <2> HIDE DEF Bad
  <2>1. QED
    BY <1>1, <1>2, LeastElement
<1>4. c \in Rev /\ x \in Lineage[c] /\ x # c
  BY LineageType
<1>5. Parent[c] \in Rev /\ x \in Lineage[Parent[c]] /\ Parent[c] \in Lineage[c]
  BY <1>4, AboveParent
<1>6. Parent[c] \in Lineage[r]
  BY <1>5, LineageWithin
<1>7. Parent[c] \notin Bad
  BY <1>3, <1>4, <1>5, RevType
<1>8. QED
  BY <1>4, <1>5, <1>6, <1>7

LEMMA PosType == ASSUME NEW r \in Rev PROVE Pos(r) \in Nat
BY LineageType, FS_CardinalityType DEF Pos

LEMMA PosGrows ==
    ASSUME NEW r \in Rev, NEW x \in Lineage[r]
    PROVE  x \in Rev /\ Pos(x) \in Nat /\ Pos(x) <= Pos(r) /\ (x # r => Pos(x) < Pos(r))
<1>1. x \in Rev /\ Lineage[x] \subseteq Lineage[r]
  BY LineageWithin
<1>2. Pos(x) <= Pos(r) /\ (Pos(r) = Pos(x) => Lineage[r] = Lineage[x])
  <2>1. IsFiniteSet(Lineage[r]) /\ Lineage[x] \in SUBSET Lineage[r]
    BY <1>1, LineageType
  <2>2. QED
    BY <2>1, FS_Subset DEF Pos
<1>3. x # r => Lineage[x] # Lineage[r]
  BY <1>1, LineageType, LineageOrder
<1>4. QED
  BY <1>1, <1>2, <1>3, PosType

-----------------------------------------------------------------------------
(* Trees and paths.                                                        *)

\* What is between a and r, with both.
Segment(a, r) == {x \in Lineage[r] : a \in Lineage[x]}

RootedAt(t, a) ==
    /\ t \subseteq Rev /\ a \in t
    /\ \A r \in t : a \in Lineage[r] /\ Segment(a, r) \subseteq t

Tree(t) == RootedAt(t, Root(t))

LEMMA RootIs ==
    ASSUME NEW t, NEW a, RootedAt(t, a)
    PROVE  Root(t) = a /\ Tree(t)
<1>1. a \in Rev /\ Parent[a] \notin t
  <2>1. a \in Rev
    BY DEF RootedAt
  <2>2. ASSUME Parent[a] \in t PROVE FALSE
    <3>1. Parent[a] \in Rev /\ a \in Lineage[Parent[a]]
      BY <2>2 DEF RootedAt
    <3>2. a <= Parent[a] /\ Parent[a] < a /\ a \in Nat /\ Parent[a] \in Nat
      BY <2>1, <3>1, LineageType, RevType
    <3>3. QED
      BY <3>2
  <2>3. QED
    BY <2>1, <2>2
<1>2. ASSUME NEW r \in t, Parent[r] \notin t, r # a PROVE FALSE
  <2>1. r \in Rev /\ a \in Lineage[r] /\ Segment(a, r) \subseteq t
    BY DEF RootedAt
  <2>2. Parent[r] \in Rev /\ a \in Lineage[Parent[r]] /\ Parent[r] \in Lineage[r]
    BY <1>2, <2>1, AboveParent
  <2>3. Parent[r] \in Segment(a, r)
    BY <2>2 DEF Segment
  <2>4. QED
    BY <1>2, <2>1, <2>3
<1>3. Root(t) = a
  BY <1>1, <1>2 DEF Root, RootedAt
<1>4. QED
  BY <1>3 DEF Tree

LEMMA TreeType ==
    ASSUME NEW t, Tree(t)
    PROVE  /\ t \subseteq Rev /\ Root(t) \in t /\ Root(t) \in Rev
           /\ \A r \in t : Root(t) \in Lineage[r] /\ Segment(Root(t), r) \subseteq t
BY DEF Tree, RootedAt

\* What stands above a member and is not above the root is a member.
LEMMA TreeHolds ==
    ASSUME NEW t, Tree(t), NEW r \in t, NEW y \in Lineage[r], Root(t) \in Lineage[y]
    PROVE  y \in t
BY TreeType DEF Segment

LEMMA ParentInTree ==
    ASSUME NEW t, Tree(t), NEW r \in t, r # Root(t)
    PROVE  Parent[r] \in t
<1>1. r \in Rev /\ Root(t) \in Lineage[r]
  BY TreeType
<1>2. Parent[r] \in Rev /\ Root(t) \in Lineage[Parent[r]] /\ Parent[r] \in Lineage[r]
  BY <1>1, AboveParent
<1>3. QED
  BY <1>2, TreeHolds

\* The trees that share a revision: one root is above the other.
LEMMA TreesMeet ==
    ASSUME NEW t, Tree(t), NEW u, Tree(u), NEW z \in t, z \in u
    PROVE  \/ Root(t) \in u /\ Root(u) \in Lineage[Root(t)]
           \/ Root(u) \in t /\ Root(t) \in Lineage[Root(u)]
<1>1. z \in Rev /\ Root(t) \in Lineage[z] /\ Root(u) \in Lineage[z]
  BY TreeType
<1>2. Root(t) \in Lineage[Root(u)] \/ Root(u) \in Lineage[Root(t)]
  BY <1>1, LineageChain
<1>3. QED
  BY <1>1, <1>2, TreeHolds

LEMMA Joined ==
    ASSUME NEW t, Tree(t), NEW u, Tree(u), Root(u) \in t
    PROVE  Tree(t \cup u) /\ Root(t \cup u) = Root(t)
<1> DEFINE a == Root(t)
           b == Root(u)
<1>1. a \in Rev /\ b \in Rev /\ a \in t /\ a \in Lineage[b]
      /\ t \subseteq Rev /\ u \subseteq Rev
  BY TreeType
<1>2. ASSUME NEW r \in t PROVE a \in Lineage[r] /\ Segment(a, r) \subseteq t \cup u
  BY TreeType
<1>3. ASSUME NEW r \in u PROVE a \in Lineage[r] /\ Segment(a, r) \subseteq t \cup u
  <2>1. r \in Rev /\ b \in Lineage[r]
    BY TreeType
  <2>2. a \in Lineage[r]
    BY <1>1, <2>1, LineageWithin
  <2>3. ASSUME NEW y \in Segment(a, r) PROVE y \in t \cup u
    <3>1. y \in Lineage[r] /\ a \in Lineage[y]
      BY DEF Segment
    <3>2. b \in Lineage[y] \/ y \in Lineage[b]
      BY <2>1, <3>1, LineageChain
    <3>3. QED
      BY <3>1, <3>2, TreeHolds
  <2>4. QED
    BY <2>2, <2>3
<1>4. RootedAt(t \cup u, a)
  <2> HIDE DEF a, b
  <2>1. QED
    BY <1>1, <1>2, <1>3 DEF RootedAt
<1>5. QED
  BY <1>4, RootIs

LEMMA LeavesJoined ==
    ASSUME NEW t, NEW u
    PROVE  LeavesOf(t \cup u) \subseteq LeavesOf(t) \cup LeavesOf(u)
BY DEF LeavesOf

Path(p, l) == Tree(p) /\ l \in p /\ p \subseteq Lineage[l]

LEMMA PathIs ==
    ASSUME NEW p, NEW l, Path(p, l)
    PROVE  /\ Tree(p) /\ l \in p /\ l \in Rev /\ IsFiniteSet(p)
           /\ Tip(p) = l /\ LeavesOf(p) = {l}
<1>1. Tree(p) /\ l \in p /\ l \in Rev /\ p \subseteq Lineage[l] /\ p \subseteq Rev
  BY TreeType DEF Path
<1>2. IsFiniteSet(p)
  BY <1>1, LineageType, FS_Subset
<1>3. Tip(p) = l
  <2>1. ASSUME NEW r \in p, p \subseteq Lineage[r] PROVE r = l
    BY <1>1, <2>1, LineageOrder
  <2>2. QED
    BY <1>1, <2>1 DEF Tip
<1>4. ASSUME NEW x \in p, Parent[x] = l PROVE FALSE
  <2>1. x \in Rev /\ x <= l /\ l \in Nat /\ x \in Nat /\ Parent[x] < x
    BY <1>1, LineageType, RevType
  <2>2. QED
    BY <1>4, <2>1
<1>5. ASSUME NEW r \in p, r # l PROVE \E x \in p : Parent[x] = r
  <2>1. PICK c \in Lineage[l] : c \in Rev /\ Parent[c] = r /\ r \in Lineage[c]
    BY <1>1, <1>5, NextBelow
  <2>2. Root(p) \in Lineage[r] /\ r \in Rev
    BY <1>1, TreeType
  <2>3. Root(p) \in Lineage[c]
    BY <2>1, <2>2, LineageWithin
  <2>4. QED
    BY <1>1, <2>1, <2>3, TreeHolds
<1>6. LeavesOf(p) = {l}
  BY <1>1, <1>4, <1>5 DEF LeavesOf
<1>7. QED
  BY <1>1, <1>2, <1>3, <1>6

\* A path is determined by its last revision and the generation of its first.
LEMMA SamePath ==
    ASSUME NEW l, NEW p, Path(p, l), NEW q, Path(q, l), Pos(Root(p)) = Pos(Root(q))
    PROVE  p = q
<1>1. l \in Rev /\ l \in p /\ l \in q /\ Tree(p) /\ Tree(q)
      /\ p \subseteq Lineage[l] /\ q \subseteq Lineage[l]
  BY PathIs DEF Path
<1>2. Root(p) \in Rev /\ Root(q) \in Rev /\ Root(p) \in Lineage[l] /\ Root(q) \in Lineage[l]
  BY <1>1, TreeType
<1>3. Root(p) \in Lineage[Root(q)] \/ Root(q) \in Lineage[Root(p)]
  BY <1>1, <1>2, LineageChain
<1>4. Root(p) = Root(q)
  BY <1>2, <1>3, PosGrows
<1>5. p \subseteq q /\ q \subseteq p
  BY <1>1, <1>4, TreeHolds, TreeType
<1>6. QED
  BY <1>5

\* What is cut off the end of a history is a path.
LEMMA CutIsPath ==
    ASSUME NEW l \in Rev, NEW A, A \subseteq Lineage[l], l \in A,
           \A x \in A : \A y \in Lineage[l] : x \in Lineage[y] => y \in A
    PROVE  Path(A, l)
<1>1. A \subseteq Rev /\ A \subseteq Nat
  BY LineageType, RevType
<1>2. PICK a \in A : \A y \in A : a <= y
  BY <1>1, LeastElement
<1>3. ASSUME NEW x \in A PROVE a \in Lineage[x] /\ Segment(a, x) \subseteq A
  <2>1. x \in Rev /\ a \in Rev /\ x \in Nat /\ a \in Nat /\ a <= x
    BY <1>1, <1>2
  <2>2. a \in Lineage[x] \/ x \in Lineage[a]
    BY LineageChain
  <2>3. x \in Lineage[a] => x = a
    BY <2>1, LineageType
  <2>4. a \in Lineage[x]
    BY <2>1, <2>2, <2>3, LineageType
  <2>5. Lineage[x] \subseteq Lineage[l]
    BY LineageWithin
  <2>6. QED
    BY <2>4, <2>5 DEF Segment
<1>4. RootedAt(A, a)
  BY <1>1, <1>3 DEF RootedAt
<1>5. QED
  BY <1>4, RootIs DEF Path

LEMMA DocumentIsPath ==
    ASSUME NEW doc, IsDocument(doc)
    PROVE  doc.rev \in Rev /\ Path(doc.ids, doc.rev)
<1>1. PICK l \in 1 .. Pos(doc.rev) : doc = Document(doc.rev, l)
  BY DEF IsDocument
<1> DEFINE r == doc.rev
           A == {x \in Lineage[r] : Pos(x) > Pos(r) - l}
<1>2. r \in Rev /\ doc.ids = A
  BY <1>1 DEF IsDocument, Document
<1>3. l \in Nat /\ l >= 1 /\ Pos(r) \in Nat
  BY <1>2, PosType
<1>4. r \in A
  BY <1>2, <1>3, LineageType
<1>5. ASSUME NEW x \in A, NEW y \in Lineage[r], x \in Lineage[y] PROVE y \in A
  <2>1. y \in Rev /\ Pos(y) \in Nat
    BY <1>2, LineageType, PosType
  <2>2. Pos(x) \in Nat /\ Pos(x) <= Pos(y)
    BY <1>5, <2>1, PosGrows
  <2>3. QED
    BY <1>3, <2>1, <2>2
<1>6. Path(A, r)
  <2>1. A \subseteq Lineage[r]
    OBVIOUS
  <2> HIDE DEF A
  <2>2. QED
    BY <1>2, <1>4, <1>5, <2>1, CutIsPath
<1>7. QED
  BY <1>2, <1>6

LEMMA BranchIsPath ==
    ASSUME NEW t, Tree(t), NEW l \in t, NEW limit \in Nat \ {0}
    PROVE  Path(Branch(t, l, limit), l) /\ Branch(t, l, limit) \subseteq t
<1> DEFINE A == Branch(t, l, limit)
<1>1. l \in Rev /\ l \in Lineage[l] /\ Pos(l) \in Nat
  BY TreeType, LineageType, PosType
<1>2. A \subseteq Lineage[l] /\ A \subseteq t /\ l \in A
  BY <1>1 DEF Branch
<1>3. ASSUME NEW x \in A, NEW y \in Lineage[l], x \in Lineage[y] PROVE y \in A
  <2>1. y \in Rev /\ Pos(y) \in Nat
    BY <1>1, LineageType, PosType
  <2>2. Pos(x) \in Nat /\ Pos(x) <= Pos(y) /\ x \in Rev
    BY <1>3, <2>1, PosGrows
  <2>3. Pos(x) > Pos(l) - limit /\ x \in t
    BY DEF Branch
  <2>4. Root(t) \in Lineage[y]
    BY <1>3, <2>1, <2>3, TreeType, LineageWithin
  <2>5. y \in t
    BY <2>4, TreeHolds
  <2>6. QED
    BY <1>1, <2>1, <2>2, <2>3, <2>5 DEF Branch
<1>4. QED
  <2> HIDE DEF A
  <2>1. QED
    BY <1>1, <1>2, <1>3, CutIsPath DEF A
-----------------------------------------------------------------------------
(* Recursion over the subsets of a finite set.                             *)

LEMMA SmallestSet ==
    ASSUME NEW U, IsFiniteSet(U), NEW Bad, Bad \subseteq SUBSET U, Bad # {}
    PROVE  \E S \in Bad : IsFiniteSet(S) /\ \A x \in S : S \ {x} \notin Bad
<1> DEFINE Sizes == {Cardinality(S) : S \in Bad}
<1>1. ASSUME NEW S \in Bad PROVE IsFiniteSet(S) /\ Cardinality(S) \in Nat
  BY FS_Subset, FS_CardinalityType
<1>2. Sizes \subseteq Nat /\ Sizes # {}
  BY <1>1
<1>3. PICK n \in Sizes : \A m \in Sizes : n <= m
  <2> HIDE DEF Sizes
  <2>1. QED
    BY <1>2, LeastElement
<1>4. PICK S \in Bad : Cardinality(S) = n
  OBVIOUS
<1>5. ASSUME NEW x \in S PROVE S \ {x} \notin Bad
  <2>1. Cardinality(S \ {x}) = Cardinality(S) - 1
    BY <1>1, FS_RemoveElement
  <2>2. S \ {x} \in Bad => n <= Cardinality(S \ {x})
    BY <1>3
  <2>3. Cardinality(S) \in Nat
    BY <1>1
  <2>4. QED
    BY <1>4, <2>1, <2>2, <2>3
<1>6. QED
  BY <1>1, <1>5

\* What takes a set apart from the back, a member c[S] at a time.
Chooses(U, c) == \A S \in SUBSET U : S # {} => c[S] \in S

\* h solves the recursion for the sets of at most m members.
SolvesSets(U, V, b, c, G, m, h) ==
    /\ h \in [SUBSET U -> V] /\ h[{}] = b
    /\ \A S \in SUBSET U :
          S # {} /\ Cardinality(S) <= m => h[S] = G[<<S, h[S \ {c[S]}]>>]

SetStepper(U, V, b, c, G) ==
    /\ IsFiniteSet(U) /\ b \in V /\ Chooses(U, c)
    /\ G \in [(SUBSET U) \X V -> V]

SolvesAll(U, V, b, c, G, h) ==
    /\ h \in [SUBSET U -> V] /\ h[{}] = b
    /\ \A S \in SUBSET U : S # {} => h[S] = G[<<S, h[S \ {c[S]}]>>]

LEMMA SetRecursion ==
    ASSUME NEW U, NEW V, NEW b, NEW c, NEW G, SetStepper(U, V, b, c, G)
    PROVE  \E h : SolvesAll(U, V, b, c, G, h)
<1> USE DEF SetStepper
<1> DEFINE N == Cardinality(U)
           Bad == {m \in 0 .. N : ~ \E h : SolvesSets(U, V, b, c, G, m, h)}
<1>1. /\ N \in Nat
      /\ \A S \in SUBSET U : IsFiniteSet(S) /\ Cardinality(S) \in Nat /\ Cardinality(S) <= N
      /\ \A S \in SUBSET U : Cardinality(S) = 0 <=> S = {}
  BY FS_CardinalityType, FS_Subset, FS_EmptySet
<1>2. Bad = {}
  <2> SUFFICES ASSUME Bad # {} PROVE FALSE
    OBVIOUS
  <2>1. PICK m \in Bad : \A k \in Bad : m <= k
    <3>1. Bad \subseteq Nat
      BY <1>1
    <3> HIDE DEF Bad
    <3>2. QED
      BY <3>1, LeastElement
  <2>2. m \in Nat /\ m <= N /\ ~ \E h : SolvesSets(U, V, b, c, G, m, h)
    BY <1>1
  <2>3. CASE m = 0
    <3> DEFINE h == [S \in SUBSET U |-> b]
    <3>1. h \in [SUBSET U -> V] /\ h[{}] = b
      OBVIOUS
    <3>2. ASSUME NEW S \in SUBSET U, S # {} PROVE ~ (Cardinality(S) <= 0)
      <4>1. Cardinality(S) \in Nat /\ Cardinality(S) # 0
        BY <1>1, <3>2
      <4>2. QED
        BY <4>1
    <3>3. SolvesSets(U, V, b, c, G, 0, h)
      <4> HIDE DEF h
      <4>1. QED
        BY <3>1, <3>2 DEF SolvesSets
    <3>4. QED
      BY <2>2, <2>3, <3>3
  <2>4. CASE m # 0
    <3>1. m - 1 \in 0 .. N /\ m - 1 \notin Bad
      BY <1>1, <2>1, <2>2, <2>4
    <3>2. PICK g : SolvesSets(U, V, b, c, G, m - 1, g)
      BY <3>1
    <3>3. g \in [SUBSET U -> V] /\ g[{}] = b
      BY <3>2 DEF SolvesSets
    <3> DEFINE step(S) == G[<<S, g[S \ {c[S]}]>>]
               h == [S \in SUBSET U |-> IF S # {} /\ Cardinality(S) = m THEN step(S) ELSE g[S]]
    <3>4. ASSUME NEW S \in SUBSET U, S # {}
          PROVE  /\ S \ {c[S]} \in SUBSET U /\ step(S) \in V
                 /\ Cardinality(S) \in Nat
                 /\ Cardinality(S \ {c[S]}) = Cardinality(S) - 1
      <4>1. c[S] \in S /\ IsFiniteSet(S)
        BY <1>1, <3>4 DEF Chooses
      <4>2. Cardinality(S \ {c[S]}) = Cardinality(S) - 1
        BY <4>1, FS_RemoveElement
      <4>3. S \ {c[S]} \in SUBSET U
        OBVIOUS
      <4>4. g[S \ {c[S]}] \in V
        BY <3>3, <4>3
      <4>5. step(S) \in V
        BY <4>4
      <4>6. QED
        BY <1>1, <4>2, <4>3, <4>5
    <3>5. h \in [SUBSET U -> V]
      <4> HIDE DEF step
      <4>1. ASSUME NEW S \in SUBSET U
            PROVE  (IF S # {} /\ Cardinality(S) = m THEN step(S) ELSE g[S]) \in V
        BY <3>3, <3>4
      <4>2. QED
        BY <4>1
    <3>6. h[{}] = b
      BY <3>3
    <3>7. ASSUME NEW S \in SUBSET U, S # {}, Cardinality(S) <= m
          PROVE  h[S] = G[<<S, h[S \ {c[S]}]>>]
      <4> DEFINE P == S \ {c[S]}
      <4>1. P \in SUBSET U /\ Cardinality(P) = Cardinality(S) - 1 /\ Cardinality(S) \in Nat
        BY <3>4, <3>7
      <4>2. h[P] = g[P]
        <5>1. Cardinality(P) # m
          BY <2>2, <3>7, <4>1
        <5> HIDE DEF step, P
        <5>2. QED
          BY <4>1, <5>1
      <4>3. CASE Cardinality(S) = m
        <5>1. h[S] = step(S)
          <6> HIDE DEF step
          <6>1. QED
            BY <3>7, <4>3
        <5>2. QED
          BY <4>2, <5>1
      <4>4. CASE Cardinality(S) # m
        <5>1. h[S] = g[S]
          <6> HIDE DEF step
          <6>1. QED
            BY <4>4
        <5>2. Cardinality(S) <= m - 1
          BY <2>2, <3>7, <4>1, <4>4
        <5>3. g[S] = G[<<S, g[P]>>]
          <6> HIDE DEF h, step
          <6>1. QED
            BY <3>2, <3>7, <5>2 DEF SolvesSets
        <5>4. QED
          BY <4>2, <5>1, <5>3
      <4>5. QED
        BY <4>3, <4>4
    <3>8. SolvesSets(U, V, b, c, G, m, h)
      <4> HIDE DEF h, step
      <4>1. QED
        BY <3>5, <3>6, <3>7 DEF SolvesSets
    <3>9. QED
      BY <2>2, <3>8
  <2>5. QED
    BY <2>3, <2>4
<1>3. N \in 0 .. N
  BY <1>1
<1>4. PICK h : SolvesSets(U, V, b, c, G, N, h)
  BY <1>2, <1>3
<1>5. QED
  <2> HIDE DEF N, Bad
  <2>1. QED
    BY <1>1, <1>4 DEF SolvesSets, SolvesAll

\* A relation that orders the members of U.
Orders(U, R) ==
    /\ \A x, y \in U : x # y => <<x, y>> \in R \/ <<y, x>> \in R
    /\ \A x, y, z \in U : <<x, y>> \in R /\ <<y, z>> \in R => <<x, z>> \in R

LEMMA LastExists ==
    ASSUME NEW U, IsFiniteSet(U), NEW R, Orders(U, R), NEW S \in SUBSET U, S # {}
    PROVE  \E q \in S : \A o \in S \ {q} : <<o, q>> \in R
<1> DEFINE HasLast(T) == \E q \in T : \A o \in T \ {q} : <<o, q>> \in R
           Bad == {T \in SUBSET U : T # {} /\ ~ HasLast(T)}
<1>1. SUFFICES ASSUME Bad # {} PROVE FALSE
  OBVIOUS
<1>2. PICK T \in Bad : IsFiniteSet(T) /\ \A x \in T : T \ {x} \notin Bad
  <2>1. Bad \subseteq SUBSET U
    OBVIOUS
  <2> HIDE DEF Bad
  <2>2. QED
    BY <1>1, <2>1, SmallestSet
<1>3. PICK x \in T : TRUE
  OBVIOUS
<1>4. T # {x}
  BY <1>2
<1>5. HasLast(T \ {x})
  BY <1>2, <1>3, <1>4
<1>6. PICK q \in T \ {x} : \A o \in (T \ {x}) \ {q} : <<o, q>> \in R
  BY <1>5
<1>7. CASE <<x, q>> \in R
  BY <1>6, <1>7
<1>8. CASE <<q, x>> \in R
  <2>1. ASSUME NEW o \in T \ {x} PROVE <<o, x>> \in R
    <3>1. x \in U /\ q \in U /\ o \in U
      OBVIOUS
    <3>2. CASE o = q
      BY <1>8, <3>2
    <3>3. CASE o # q
      <4>1. <<o, q>> \in R
        BY <1>6, <3>3
      <4>2. QED
        BY <1>8, <3>1, <4>1 DEF Orders
    <3>4. QED
      BY <3>2, <3>3
  <2>2. QED
    BY <2>1
<1>9. x \in U /\ q \in U /\ x # q
  OBVIOUS
<1>10. QED
  BY <1>7, <1>8, <1>9 DEF Orders
-----------------------------------------------------------------------------
(* Forests.                                                                *)

Grove(F) ==
    /\ \A t \in F : Tree(t)
    /\ \A t, u \in F : Root(t) = Root(u) => t = u
    /\ IsFiniteSet(Nodes(F))

LEMMA EmptyGrove == Grove({}) /\ Nodes({}) = {} /\ Leaves({}) = {}
BY FS_EmptySet DEF Grove, Nodes, Leaves

LEMMA GroveFinite ==
    ASSUME NEW F, IsFiniteSet(Nodes(F))
    PROVE  IsFiniteSet(F) /\ \A t \in F : t \subseteq Nodes(F) /\ IsFiniteSet(t)
<1>1. \A t \in F : t \subseteq Nodes(F)
  BY DEF Nodes
<1>2. IsFiniteSet(SUBSET Nodes(F))
  BY FS_SUBSET
<1>3. F \in SUBSET (SUBSET Nodes(F))
  BY <1>1
<1>4. IsFiniteSet(F)
  BY <1>2, <1>3, FS_Subset
<1>5. QED
  BY <1>1, <1>4, FS_Subset

LEMMA RootType ==
    ASSUME NEW t, Tree(t)
    PROVE  Root(t) \in Rev /\ Root(t) \in Nat /\ Pos(Root(t)) \in Nat
BY TreeType, RevType, PosType

LEMMA BeforeOrders ==
    ASSUME NEW t, Tree(t), NEW u, Tree(u), NEW v, Tree(v)
    PROVE  /\ Root(t) # Root(u) => Before(t, u) \/ Before(u, t)
           /\ Before(t, u) /\ Before(u, v) => Before(t, v)
<1>1. /\ Root(t) \in Nat /\ Pos(Root(t)) \in Nat
      /\ Root(u) \in Nat /\ Pos(Root(u)) \in Nat
      /\ Root(v) \in Nat /\ Pos(Root(v)) \in Nat
  BY RootType
<1>2. QED
  BY <1>1 DEF Before

Earlier(F) == {p \in F \X F : Before(p[1], p[2])}
LaterIn(F) == {p \in F \X F : Before(p[2], p[1])}

LEMMA GroveOrder ==
    ASSUME NEW F, Grove(F)
    PROVE  Orders(F, Earlier(F)) /\ Orders(F, LaterIn(F))
<1>1. ASSUME NEW t \in F, NEW u \in F
      PROVE  /\ <<t, u>> \in Earlier(F) <=> Before(t, u)
             /\ <<t, u>> \in LaterIn(F) <=> Before(u, t)
  BY DEF Earlier, LaterIn
<1>2. ASSUME NEW t \in F, NEW u \in F, t # u PROVE Before(t, u) \/ Before(u, t)
  <2>1. Tree(t) /\ Tree(u) /\ Root(t) # Root(u)
    BY <1>2 DEF Grove
  <2>2. QED
    BY <2>1, BeforeOrders
<1>3. ASSUME NEW t \in F, NEW u \in F, NEW v \in F
      PROVE  Before(t, u) /\ Before(u, v) => Before(t, v)
  <2>1. Tree(t) /\ Tree(u) /\ Tree(v)
    BY DEF Grove
  <2>2. QED
    BY <2>1, BeforeOrders
<1>4. QED
  BY <1>1, <1>2, <1>3 DEF Orders

\* The first and the last of some trees.
LEMMA FirstTree ==
    ASSUME NEW F, Grove(F), NEW S \in SUBSET F, S # {}
    PROVE  /\ \E t \in S : \A u \in S \ {t} : Before(t, u)
           /\ \E t \in S : \A u \in S \ {t} : Before(u, t)
<1>1. IsFiniteSet(F)
  BY GroveFinite DEF Grove
<1>2. PICK t \in S : \A u \in S \ {t} : <<u, t>> \in LaterIn(F)
  BY <1>1, GroveOrder, LastExists
<1>3. PICK v \in S : \A u \in S \ {v} : <<u, v>> \in Earlier(F)
  BY <1>1, GroveOrder, LastExists
<1>4. \A u \in S \ {t} : Before(t, u)
  BY <1>2 DEF LaterIn
<1>5. \A u \in S \ {v} : Before(u, v)
  BY <1>3 DEF Earlier
<1>6. QED
  BY <1>4, <1>5

-----------------------------------------------------------------------------
(* CouchDB merges.                                                         *)

LEMMA MergeIs ==
    ASSUME NEW F, Grove(F), NEW p
    PROVE  \/ (\A t \in F : ~ Meets(t, p)) /\ CouchMerge(F, p) = F \cup {p}
           \/ \E t \in F : /\ Meets(t, p)
                           /\ \A u \in F \ {t} : Meets(u, p) => Before(t, u)
                           /\ CouchMerge(F, p) = (F \ {t}) \cup {t \cup p}
<1> DEFINE met == {t \in F : Meets(t, p)}
<1>1. CASE met = {}
  BY <1>1 DEF CouchMerge
<1>2. CASE met # {}
  <2> DEFINE t == CHOOSE u \in met : \A v \in met \ {u} : Before(u, v)
  <2>1. t \in met /\ \A v \in met \ {t} : Before(t, v)
    <3>1. \E u \in met : \A v \in met \ {u} : Before(u, v)
      <4>1. met \in SUBSET F
        OBVIOUS
      <4> HIDE DEF met
      <4>2. QED
        BY <1>2, <4>1, FirstTree
    <3>2. QED
      BY <3>1
  <2>2. CouchMerge(F, p) = (F \ {t}) \cup {t \cup p}
    BY <1>2 DEF CouchMerge
  <2> HIDE DEF t
  <2>3. QED
    BY <2>1, <2>2
<1>3. QED
  BY <1>1, <1>2

\* Whoever meets the path starts on it, or above it.
LEMMA MeetJoins ==
    ASSUME NEW t, Tree(t), NEW p, Tree(p), Meets(t, p)
    PROVE  /\ Tree(t \cup p)
           /\ \/ Root(p) \in t /\ Root(t \cup p) = Root(t)
              \/ /\ Root(t) \in p /\ Root(t \cup p) = Root(p)
                 /\ Root(p) \in Lineage[Root(t)]
<1>1. CASE Root(p) \in t
  BY <1>1, Joined
<1>2. CASE Root(t) \in p
  <2>1. Tree(p \cup t) /\ Root(p \cup t) = Root(p) /\ p \cup t = t \cup p
    BY <1>2, Joined
  <2>2. Root(p) \in Lineage[Root(t)]
    BY <1>2, TreeType
  <2>3. QED
    BY <1>2, <2>1, <2>2
<1>3. QED
  BY <1>1, <1>2 DEF Meets

LEMMA Merging ==
    ASSUME NEW F, Grove(F), NEW p, NEW l, Path(p, l)
    PROVE  /\ Grove(CouchMerge(F, p))
           /\ Nodes(CouchMerge(F, p)) = Nodes(F) \cup p
           /\ Leaves(CouchMerge(F, p)) \subseteq Leaves(F) \cup {l}
<1> DEFINE M == CouchMerge(F, p)
<1>1. Tree(p) /\ LeavesOf(p) = {l} /\ IsFiniteSet(p) /\ Root(p) \in p
  BY PathIs, TreeType
<1>2. IsFiniteSet(Nodes(F) \cup p)
  BY <1>1, FS_Union DEF Grove
<1>3. CASE (\A t \in F : ~ Meets(t, p)) /\ M = F \cup {p}
  <2>1. \A t \in F : Root(t) # Root(p)
    BY <1>1, <1>3 DEF Meets
  <2>2. Nodes(M) = Nodes(F) \cup p
    BY <1>3 DEF Nodes
  <2>3. Leaves(M) \subseteq Leaves(F) \cup {l}
    BY <1>1, <1>3 DEF Leaves
  <2>4. Grove(M)
    <3>1. \A t \in M : Tree(t)
      BY <1>1, <1>3 DEF Grove
    <3>2. \A t, u \in M : Root(t) = Root(u) => t = u
      BY <1>3, <2>1 DEF Grove
    <3>3. QED
      BY <1>2, <2>2, <3>1, <3>2 DEF Grove
  <2>5. QED
    BY <2>2, <2>3, <2>4
<1>4. ASSUME NEW t \in F, Meets(t, p),
             \A u \in F \ {t} : Meets(u, p) => Before(t, u),
             M = (F \ {t}) \cup {t \cup p}
      PROVE  /\ Grove(M) /\ Nodes(M) = Nodes(F) \cup p
             /\ Leaves(M) \subseteq Leaves(F) \cup {l}
  <2>1. Tree(t)
    BY DEF Grove
  <2>2. Nodes(M) = Nodes(F) \cup p
    BY <1>4 DEF Nodes
  <2>3. Leaves(M) \subseteq Leaves(F) \cup {l}
    <3>1. LeavesOf(t \cup p) \subseteq LeavesOf(t) \cup {l}
      BY <1>1, LeavesJoined
    <3>2. QED
      BY <1>4, <3>1 DEF Leaves
  <2>4. ASSUME NEW u \in F \ {t} PROVE Root(u) # Root(t \cup p)
    <3>1. Tree(u) /\ Root(u) # Root(t)
      BY DEF Grove
    <3>2. CASE Root(t) \in p /\ Root(t \cup p) = Root(p) /\ Root(p) \in Lineage[Root(t)]
      <4>1. SUFFICES ASSUME Root(u) = Root(p) PROVE FALSE
        BY <3>2
      <4>2. Before(t, u)
        BY <1>1, <1>4, <4>1 DEF Meets
      <4>3. Root(u) \in Lineage[Root(t)] /\ Root(t) \in Rev
        BY <2>1, <3>2, <4>1, RootType
      <4>4. Pos(Root(u)) <= Pos(Root(t)) /\ Root(u) <= Root(t)
        BY <4>3, PosGrows, LineageType
      <4>5. /\ Root(t) \in Nat /\ Pos(Root(t)) \in Nat
            /\ Root(u) \in Nat /\ Pos(Root(u)) \in Nat
        BY <2>1, <3>1, RootType
      <4>6. QED
        BY <4>2, <4>4, <4>5 DEF Before
    <3>3. QED
      BY <1>1, <1>4, <2>1, <3>1, <3>2, MeetJoins
  <2>5. Grove(M)
    <3>1. Tree(t \cup p)
      BY <1>1, <1>4, <2>1, MeetJoins
    <3>2. \A u \in M : Tree(u)
      BY <1>4, <3>1 DEF Grove
    <3>3. \A u, v \in M : Root(u) = Root(v) => u = v
      BY <1>4, <2>4 DEF Grove
    <3>4. QED
      BY <1>2, <2>2, <3>2, <3>3 DEF Grove
  <2>6. QED
    BY <2>2, <2>3, <2>5
<1>5. QED
  <2> HIDE DEF M
  <2>1. \/ (\A t \in F : ~ Meets(t, p)) /\ M = F \cup {p}
        \/ \E t \in F : /\ Meets(t, p)
                        /\ \A u \in F \ {t} : Meets(u, p) => Before(t, u)
                        /\ M = (F \ {t}) \cup {t \cup p}
    BY MergeIs DEF M
  <2>2. QED
    BY <1>3, <1>4, <2>1 DEF M

\* No revision in two trees.
Disjoint(F) == \A t, u \in F : t # u => t \cap u = {}

\* A path that starts no further up than any tree meets at most one of them.
LEMMA MergingApart ==
    ASSUME NEW F, Grove(F), Disjoint(F), NEW p, NEW l, Path(p, l),
           \A t \in F : Pos(Root(t)) <= Pos(Root(p))
    PROVE  /\ Disjoint(CouchMerge(F, p))
           /\ \A t \in CouchMerge(F, p) : Pos(Root(t)) <= Pos(Root(p))
<1> DEFINE M == CouchMerge(F, p)
<1>1. Tree(p) /\ Root(p) \in p /\ Root(p) \in Rev /\ Pos(Root(p)) \in Nat
  BY PathIs, TreeType, RootType
<1>2. ASSUME NEW t \in F, Root(p) \in Lineage[Root(t)] PROVE Root(t) = Root(p)
  <2>1. Tree(t)
    BY DEF Grove
  <2>2. Root(t) \in Rev /\ Pos(Root(t)) \in Nat /\ Pos(Root(t)) <= Pos(Root(p))
    BY <2>1, RootType
  <2>3. QED
    BY <1>1, <1>2, <2>2, PosGrows
<1>3. ASSUME NEW t \in F, Meets(t, p) \/ t \cap p # {} PROVE Root(p) \in t
  <2>1. Tree(t) /\ Root(t) \in t
    BY TreeType DEF Grove
  <2>2. CASE Root(t) \in p
    BY <1>1, <1>2, <2>1, <2>2, TreeType
  <2>3. CASE t \cap p # {}
    <3>1. PICK z \in t : z \in p
      BY <2>3
    <3>2. Root(p) \in t \/ Root(p) \in Lineage[Root(t)]
      BY <1>1, <2>1, <3>1, TreesMeet
    <3>3. QED
      BY <1>2, <2>1, <3>2
  <2>4. QED
    BY <1>3, <2>2, <2>3 DEF Meets
<1>4. CASE (\A t \in F : ~ Meets(t, p)) /\ M = F \cup {p}
  <2>1. ASSUME NEW t \in F PROVE t \cap p = {}
    BY <1>3, <1>4 DEF Meets
  <2>2. Disjoint(M)
    BY <1>4, <2>1 DEF Disjoint
  <2>3. QED
    BY <1>1, <1>4, <2>2
<1>5. ASSUME NEW t \in F, Meets(t, p), M = (F \ {t}) \cup {t \cup p}
      PROVE  Disjoint(M) /\ \A u \in M : Pos(Root(u)) <= Pos(Root(p))
  <2>1. Tree(t) /\ Root(p) \in t
    BY <1>3, <1>5 DEF Grove
  <2>2. Root(t \cup p) = Root(t)
    BY <1>1, <2>1, Joined
  <2>3. ASSUME NEW u \in F \ {t} PROVE u \cap (t \cup p) = {}
    <3>1. u \cap t = {}
      BY DEF Disjoint
    <3>2. u \cap p = {}
      BY <1>3, <2>1, <3>1
    <3>3. QED
      BY <3>1, <3>2
  <2>4. Disjoint(M)
    BY <1>5, <2>3 DEF Disjoint
  <2>5. QED
    BY <1>5, <2>2, <2>4
<1>6. QED
  <2> HIDE DEF M
  <2>1. \/ (\A t \in F : ~ Meets(t, p)) /\ M = F \cup {p}
        \/ \E t \in F : Meets(t, p) /\ M = (F \ {t}) \cup {t \cup p}
    BY MergeIs DEF M
  <2>2. QED
    BY <1>4, <1>5, <2>1 DEF M
-----------------------------------------------------------------------------
(* Cutting.                                                                *)

\* A member of rs stands below x without a gap, and nothing above x does.
IsTop(rs, r, x) ==
    /\ x \in Lineage[r] \cap rs
    /\ Parent[x] \notin rs
    /\ \A y \in Lineage[r] \ Lineage[x] : y \in rs

TopIn(rs, r) ==
    CHOOSE x \in Lineage[r] \cap rs :
        /\ Parent[x] \notin rs
        /\ \A y \in Lineage[r] \ Lineage[x] : y \in rs

LEMMA TopUnique ==
    ASSUME NEW rs, rs \subseteq Rev, NEW r \in rs,
           NEW x, IsTop(rs, r, x), NEW z, IsTop(rs, r, z)
    PROVE  x = z
<1>1. ASSUME NEW a, NEW b, IsTop(rs, r, a), IsTop(rs, r, b), a \in Lineage[b] PROVE a = b
  <2>1. SUFFICES ASSUME a # b PROVE FALSE
    OBVIOUS
  <2>2. b \in Rev /\ b \in Lineage[r] /\ Parent[b] \notin rs /\ a \in rs
    BY <1>1 DEF IsTop
  <2>3. Parent[b] \in Rev /\ a \in Lineage[Parent[b]] /\ Parent[b] \in Lineage[b]
    BY <1>1, <2>1, <2>2, AboveParent
  <2>4. Parent[b] \in Lineage[r]
    BY <2>2, <2>3, LineageWithin
  <2>5. Parent[b] \in Lineage[a]
    BY <1>1, <2>2, <2>4 DEF IsTop
  <2>6. a = Parent[b]
    BY <2>2, <2>3, <2>5, LineageOrder
  <2>7. QED
    BY <2>2, <2>6
<1>2. r \in Rev /\ x \in Lineage[r] /\ z \in Lineage[r]
  BY DEF IsTop
<1>3. QED
  BY <1>1, <1>2, LineageChain

LEMMA TopExists ==
    ASSUME NEW rs, rs \subseteq Rev, NEW r \in rs
    PROVE  IsTop(rs, r, TopIn(rs, r))
<1> DEFINE Above == {x \in Lineage[r] \cap rs : \A y \in Lineage[r] \ Lineage[x] : y \in rs}
<1>1. r \in Rev /\ r \in Above /\ Above \subseteq Nat
  BY LineageType, RevType
<1>2. PICK x \in Above : \A y \in Above : x <= y
  <2> HIDE DEF Above
  <2>1. QED
    BY <1>1, LeastElement
<1>3. ASSUME Parent[x] \in rs PROVE FALSE
  <2>1. x \in Rev /\ x \in Lineage[r] /\ x \in Nat
    BY <1>1 DEF Above
  <2>2. Parent[x] \in Rev /\ Parent[x] # NoRev /\ Parent[x] < x /\ Parent[x] \in Nat
    BY <1>3, <2>1, RevType
  <2>3. Parent[x] \in Lineage[x] /\ Lineage[x] = {x} \cup Lineage[Parent[x]]
    BY <2>1, <2>2, ParentAbove
  <2>4. Parent[x] \in Lineage[r]
    BY <1>1, <2>1, <2>3, LineageWithin
  <2>5. Parent[x] \in Above
    BY <1>3, <2>3, <2>4
  <2>6. QED
    BY <1>2, <2>1, <2>2, <2>5
<1>4. QED
  BY <1>3 DEF TopIn, IsTop

LEMMA ComponentsAre ==
    ASSUME NEW rs, rs \subseteq Rev
    PROVE  /\ \A c \in Components(rs) : Tree(c) /\ c \subseteq rs
                                        /\ LeavesOf(c) \subseteq LeavesOf(rs)
           /\ Nodes(Components(rs)) = rs
           /\ Disjoint(Components(rs))
<1> DEFINE below(x) == {r \in rs : TopIn(rs, r) = x}
           tops == {r \in rs : Parent[r] \notin rs}
<1>1. Components(rs) = {below(x) : x \in tops}
  BY DEF Components, TopIn
<1>2. ASSUME NEW r \in rs, NEW x PROVE TopIn(rs, r) = x <=> IsTop(rs, r, x)
  BY TopExists, TopUnique
<1>3. ASSUME NEW x \in tops PROVE RootedAt(below(x), x)
  <2>1. x \in below(x)
    <3>1. IsTop(rs, x, x)
      BY LineageType DEF IsTop
    <3>2. QED
      BY <1>2, <3>1
  <2>2. ASSUME NEW r \in below(x) PROVE x \in Lineage[r] /\ Segment(x, r) \subseteq below(x)
    <3>1. r \in Rev /\ IsTop(rs, r, x)
      BY <1>2
    <3>2. ASSUME NEW y \in Segment(x, r) PROVE y \in below(x)
      <4>1. y \in Rev /\ y \in Lineage[r] /\ x \in Lineage[y] /\ Lineage[y] \subseteq Lineage[r]
        BY <3>1, LineageWithin DEF Segment
      <4>2. y \in rs
        <5>1. CASE y = x
          BY <5>1
        <5>2. CASE y # x
          <6>1. y \notin Lineage[x]
            BY <4>1, <5>2, LineageOrder
          <6>2. QED
            BY <3>1, <4>1, <6>1 DEF IsTop
        <5>3. QED
          BY <5>1, <5>2
      <4>3. IsTop(rs, y, x)
        BY <3>1, <4>1 DEF IsTop
      <4>4. QED
        BY <1>2, <4>2, <4>3
    <3>3. QED
      BY <3>1, <3>2 DEF IsTop
  <2>3. below(x) \subseteq Rev
    OBVIOUS
  <2> HIDE DEF below
  <2>4. QED
    BY <2>1, <2>2, <2>3 DEF RootedAt
<1>4. ASSUME NEW x \in tops PROVE LeavesOf(below(x)) \subseteq LeavesOf(rs)
  <2>1. ASSUME NEW r \in below(x), NEW y \in rs, Parent[y] = r PROVE y \in below(x)
    <3>1. IsTop(rs, r, x) /\ y \in Rev /\ r \in rs /\ Parent[y] # NoRev
      BY <1>2, <2>1, RevType
    <3>2. Lineage[y] = {y} \cup Lineage[r]
      BY <2>1, <3>1, ParentAbove
    <3>3. IsTop(rs, y, x)
      BY <3>1, <3>2 DEF IsTop
    <3>4. QED
      BY <1>2, <3>3
  <2>2. QED
    BY <2>1 DEF LeavesOf
<1>5. Nodes(Components(rs)) = rs
  <2>1. ASSUME NEW r \in rs PROVE TopIn(rs, r) \in tops
    BY TopExists DEF IsTop
  <2>2. QED
    BY <1>1, <2>1 DEF Nodes
<1>6. Disjoint(Components(rs))
  BY <1>1 DEF Disjoint
<1>7. ASSUME NEW x \in tops PROVE Tree(below(x)) /\ below(x) \subseteq rs
  BY <1>3, RootIs
<1> HIDE DEF below, tops
<1>8. QED
  BY <1>1, <1>4, <1>5, <1>6, <1>7

LEMMA BranchesAre ==
    ASSUME NEW t, Tree(t), NEW limit \in Nat \ {0}
    PROVE  /\ \A b \in Branches(t, limit) :
                  b \subseteq t /\ \E l \in LeavesOf(t) : Path(b, l)
           /\ \A l \in LeavesOf(t) : \E b \in Branches(t, limit) : Path(b, l)
           /\ LeavesOf(UNION Branches(t, limit)) \subseteq LeavesOf(t)
<1>1. ASSUME NEW l \in LeavesOf(t)
      PROVE  Path(Branch(t, l, limit), l) /\ Branch(t, l, limit) \subseteq t
  BY BranchIsPath DEF LeavesOf
<1>2. ASSUME NEW b \in Branches(t, limit)
      PROVE  b \subseteq t /\ \E l \in LeavesOf(t) : Path(b, l)
  BY <1>1 DEF Branches
<1>3. ASSUME NEW r \in LeavesOf(UNION Branches(t, limit)) PROVE r \in LeavesOf(t)
  <2>1. PICK b \in Branches(t, limit) : r \in b
    BY DEF LeavesOf
  <2>2. r \in LeavesOf(b)
    BY <2>1 DEF LeavesOf
  <2>3. QED
    BY <1>2, <2>2, PathIs
<1>4. QED
  BY <1>1, <1>2, <1>3 DEF Branches

\* What cutting does to some trees.
Stems(F, G) ==
    /\ Grove(G)
    /\ Nodes(G) \subseteq Nodes(F)
    /\ Leaves(F) \subseteq Nodes(G)
    /\ Leaves(G) \subseteq Leaves(F)

LEMMA ApartIsGrove ==
    ASSUME NEW F, Disjoint(F), \A t \in F : Tree(t), IsFiniteSet(Nodes(F))
    PROVE  Grove(F)
BY TreeType DEF Grove, Disjoint

LEMMA StemApart ==
    ASSUME NEW F, Grove(F), ~ Overlapping(F), NEW limit \in Nat \ {0}
    PROVE  Stems(F, CouchStem(F, limit)) /\ Disjoint(CouchStem(F, limit))
<1> DEFINE rs(t) == UNION Branches(t, limit)
           G == UNION {Components(rs(t)) : t \in F}
<1>1. CouchStem(F, limit) = G /\ Disjoint(F)
  BY DEF CouchStem, Overlapping, Disjoint
<1>2. ASSUME NEW t \in F
      PROVE  /\ rs(t) \subseteq t /\ rs(t) \subseteq Rev
             /\ LeavesOf(t) \subseteq rs(t) /\ LeavesOf(rs(t)) \subseteq LeavesOf(t)
  <2>1. Tree(t) /\ t \subseteq Rev
    BY TreeType DEF Grove
  <2>2. QED
    BY <2>1, BranchesAre DEF Path
<1> HIDE DEF rs
<1>3. ASSUME NEW t \in F, NEW c \in Components(rs(t))
      PROVE  Tree(c) /\ c \subseteq t /\ LeavesOf(c) \subseteq LeavesOf(t)
  BY <1>2, ComponentsAre
<1>4. Disjoint(G)
  <2>1. ASSUME NEW t \in F, NEW u \in F, NEW c \in Components(rs(t)),
               NEW d \in Components(rs(u)), c # d
        PROVE  c \cap d = {}
    <3>1. CASE t = u
      BY <1>2, <2>1, <3>1, ComponentsAre DEF Disjoint
    <3>2. CASE t # u
      BY <1>1, <1>3, <3>2 DEF Disjoint
    <3>3. QED
      BY <3>1, <3>2
  <2>2. QED
    BY <2>1 DEF Disjoint
<1>5. Nodes(G) \subseteq Nodes(F)
  BY <1>3 DEF Nodes
<1>6. \A c \in G : Tree(c)
  BY <1>3
<1>7. Leaves(F) \subseteq Nodes(G)
  <2>1. ASSUME NEW t \in F, NEW r \in LeavesOf(t) PROVE r \in Nodes(G)
    <3>1. r \in Nodes(Components(rs(t)))
      BY <1>2, ComponentsAre
    <3>2. QED
      BY <3>1 DEF Nodes
  <2>2. QED
    BY <2>1 DEF Leaves
<1>8. Leaves(G) \subseteq Leaves(F)
  BY <1>3 DEF Leaves
<1>9. Grove(G)
  <2>1. IsFiniteSet(Nodes(G))
    BY <1>5, FS_Subset DEF Grove
  <2> HIDE DEF G
  <2>2. QED
    BY <1>4, <1>6, <2>1, ApartIsGrove
<1> HIDE DEF G
<1>10. QED
  BY <1>1, <1>4, <1>5, <1>7, <1>8, <1>9 DEF Stems
-----------------------------------------------------------------------------
(* CouchDB repairs.                                                        *)

ArePaths(U) == IsFiniteSet(UNION U) /\ \A p \in U : Path(p, Tip(p))

LEMMA PathTypes ==
    ASSUME NEW U, ArePaths(U), NEW p \in U
    PROVE  /\ Tree(p) /\ Path(p, Tip(p)) /\ p \subseteq Rev
           /\ Tip(p) \in Nat /\ Pos(Root(p)) \in Nat
<1>1. Path(p, Tip(p))
  BY DEF ArePaths
<1>2. Tree(p) /\ Tip(p) \in Rev
  BY <1>1, PathIs
<1>3. QED
  BY <1>1, <1>2, TreeType, RevType, RootType

LEMMA PathOrder ==
    ASSUME NEW U, ArePaths(U)
    PROVE  Orders(U, {x \in U \X U : PathBefore(x[1], x[2])})
<1> DEFINE R == {x \in U \X U : PathBefore(x[1], x[2])}
<1>1. ASSUME NEW p \in U, NEW q \in U PROVE <<p, q>> \in R <=> PathBefore(p, q)
  OBVIOUS
<1>2. ASSUME NEW p \in U, NEW q \in U, p # q PROVE PathBefore(p, q) \/ PathBefore(q, p)
  <2>1. /\ Tip(p) \in Nat /\ Pos(Root(p)) \in Nat
        /\ Tip(q) \in Nat /\ Pos(Root(q)) \in Nat
    BY PathTypes
  <2>2. ~ (Pos(Root(p)) = Pos(Root(q)) /\ Tip(p) = Tip(q))
    BY <1>2, PathTypes, SamePath
  <2>3. QED
    BY <2>1, <2>2 DEF PathBefore
<1>3. ASSUME NEW p \in U, NEW q \in U, NEW s \in U, PathBefore(p, q), PathBefore(q, s)
      PROVE  PathBefore(p, s)
  <2>1. /\ Tip(p) \in Nat /\ Pos(Root(p)) \in Nat
        /\ Tip(q) \in Nat /\ Pos(Root(q)) \in Nat
        /\ Tip(s) \in Nat /\ Pos(Root(s)) \in Nat
    BY PathTypes
  <2>2. QED
    BY <1>3, <2>1 DEF PathBefore
<1> HIDE DEF R
<1>4. Orders(U, R)
  BY <1>1, <1>2, <1>3 DEF Orders
<1>5. QED
  BY <1>4 DEF R

LastIn(S) == CHOOSE q \in S : \A o \in S \ {q} : PathBefore(o, q)

LEMMA LastPath ==
    ASSUME NEW U, ArePaths(U), NEW S \in SUBSET U, S # {}
    PROVE  LastIn(S) \in S /\ \A o \in S \ {LastIn(S)} : PathBefore(o, LastIn(S))
<1> DEFINE R == {x \in U \X U : PathBefore(x[1], x[2])}
<1>1. IsFiniteSet(U)
  BY GroveFinite DEF ArePaths, Nodes
<1>2. \E q \in S : \A o \in S \ {q} : <<o, q>> \in R
  <2>1. Orders(U, R)
    BY PathOrder
  <2> HIDE DEF R
  <2>2. QED
    BY <1>1, <2>1, LastExists
<1>3. \E q \in S : \A o \in S \ {q} : PathBefore(o, q)
  BY <1>2
<1>4. QED
  BY <1>3 DEF LastIn

Repairs(U, m) ==
    m = [S \in SUBSET U |->
            IF S = {} THEN {}
            ELSE LET p == CHOOSE q \in S : \A o \in S \ {q} : PathBefore(o, q)
                 IN  CouchMerge(m[S \ {p}], p)]

Groves == {F \in SUBSET SUBSET Rev : Grove(F)}

LEMMA RepairExists ==
    ASSUME NEW U, ArePaths(U)
    PROVE  \E m : Repairs(U, m)
<1> DEFINE c == [S \in SUBSET U |-> LastIn(S)]
           step(S, F) == IF S = {} THEN {} ELSE CouchMerge(F, LastIn(S))
           G == [x \in (SUBSET U) \X Groves |-> step(x[1], x[2])]
<1>1. IsFiniteSet(U)
  BY GroveFinite DEF ArePaths, Nodes
<1>2. Chooses(U, c)
  BY LastPath DEF Chooses
<1>3. {} \in Groves
  BY EmptyGrove DEF Groves
<1>4. ASSUME NEW S \in SUBSET U, NEW F \in Groves PROVE step(S, F) \in Groves
  <2>1. CASE S = {}
    BY <1>3, <2>1
  <2>2. CASE S # {}
    <3>1. LastIn(S) \in U
      BY <2>2, LastPath
    <3>2. Path(LastIn(S), Tip(LastIn(S)))
      BY <3>1 DEF ArePaths
    <3>3. Grove(CouchMerge(F, LastIn(S)))
      BY <3>2, Merging DEF Groves
    <3>4. CouchMerge(F, LastIn(S)) \in SUBSET SUBSET Rev
      BY <3>3, TreeType DEF Grove
    <3>5. QED
      BY <2>2, <3>3, <3>4 DEF Groves
  <2>3. QED
    BY <2>1, <2>2
<1>5. G \in [(SUBSET U) \X Groves -> Groves]
  <2> HIDE DEF step
  <2>1. \A x \in (SUBSET U) \X Groves : step(x[1], x[2]) \in Groves
    BY <1>4
  <2>2. QED
    BY <2>1
<1>6. PICK h \in [SUBSET U -> Groves] :
         h[{}] = {} /\ \A S \in SUBSET U : S # {} => h[S] = G[<<S, h[S \ {c[S]}]>>]
  <2> HIDE DEF c, G, step
  <2>1. SetStepper(U, Groves, {}, c, G)
    BY <1>1, <1>2, <1>3, <1>5 DEF SetStepper
  <2>2. PICK h : SolvesAll(U, Groves, {}, c, G, h)
    BY <2>1, SetRecursion
  <2>3. QED
    BY <2>2 DEF SolvesAll
<1>7. ASSUME NEW S \in SUBSET U, S # {}
      PROVE  h[S] = CouchMerge(h[S \ {LastIn(S)}], LastIn(S))
  <2>1. h[S] = G[<<S, h[S \ {LastIn(S)}]>>]
    BY <1>6, <1>7
  <2>2. h[S \ {LastIn(S)}] \in Groves
    OBVIOUS
  <2>3. G[<<S, h[S \ {LastIn(S)}]>>] = step(S, h[S \ {LastIn(S)}])
    <3> HIDE DEF step
    <3>1. QED
      BY <2>2
  <2>4. QED
    BY <1>7, <2>1, <2>3
<1>8. h = [S \in SUBSET U |-> IF S = {} THEN {} ELSE CouchMerge(h[S \ {LastIn(S)}], LastIn(S))]
  BY <1>6, <1>7
<1>9. Repairs(U, h)
  BY <1>8 DEF Repairs, LastIn
<1>10. QED
  BY <1>9

Merges(S, F) ==
    /\ Grove(F) /\ Disjoint(F)
    /\ Nodes(F) = UNION S
    /\ Leaves(F) \subseteq {Tip(p) : p \in S}
    /\ \A t \in F : \E p \in S : Pos(Root(t)) <= Pos(Root(p))

LEMMA RepairIs ==
    ASSUME NEW U, ArePaths(U), NEW m, Repairs(U, m)
    PROVE  Merges(U, m[U])
<1>1. m[{}] = {} /\ \A S \in SUBSET U :
          S # {} => m[S] = CouchMerge(m[S \ {LastIn(S)}], LastIn(S))
  BY DEF Repairs, LastIn
<1> DEFINE Bad == {S \in SUBSET U : ~ Merges(S, m[S])}
<1>2. SUFFICES ASSUME Bad # {} PROVE FALSE
  OBVIOUS
<1>3. IsFiniteSet(U)
  BY GroveFinite DEF ArePaths, Nodes
<1>4. PICK S \in Bad : \A x \in S : S \ {x} \notin Bad
  <2>1. Bad \subseteq SUBSET U
    OBVIOUS
  <2> HIDE DEF Bad
  <2>2. QED
    BY <1>2, <1>3, <2>1, SmallestSet
<1>5. S # {}
  <2>1. Merges({}, {})
    BY EmptyGrove DEF Merges, Disjoint
  <2>2. QED
    BY <1>1, <2>1
<1> DEFINE p == LastIn(S)
           F == m[S \ {p}]
           l == Tip(p)
<1>6. p \in S /\ \A o \in S \ {p} : PathBefore(o, p)
  BY <1>5, LastPath
<1>7. Merges(S \ {p}, F)
  <2>1. S \ {p} \in SUBSET U
    OBVIOUS
  <2>2. QED
    BY <1>4, <1>6, <2>1
<1>8. m[S] = CouchMerge(F, p)
  BY <1>1, <1>5
<1> HIDE DEF p, F
<1>9. p \in U /\ Path(p, l) /\ Pos(Root(p)) \in Nat
  BY <1>6, PathTypes
<1>10. \A t \in F : Pos(Root(t)) <= Pos(Root(p))
  <2>1. ASSUME NEW t \in F PROVE Pos(Root(t)) <= Pos(Root(p))
    <3>1. PICK o \in S \ {p} : Pos(Root(t)) <= Pos(Root(o))
      BY <1>7 DEF Merges
    <3>2. PathBefore(o, p) /\ o \in U
      BY <1>6
    <3>3. Pos(Root(o)) \in Nat
      BY <3>2, PathTypes
    <3>4. Pos(Root(t)) \in Nat
      BY <1>7, RootType DEF Merges, Grove
    <3>5. QED
      BY <1>9, <3>1, <3>2, <3>3, <3>4 DEF PathBefore
  <2>2. QED
    BY <2>1
<1>11. Grove(F) /\ Disjoint(F)
  BY <1>7 DEF Merges
<1>12. /\ Grove(m[S]) /\ Nodes(m[S]) = Nodes(F) \cup p
       /\ Leaves(m[S]) \subseteq Leaves(F) \cup {l}
  BY <1>8, <1>9, <1>11, Merging
<1>13. Disjoint(m[S]) /\ \A t \in m[S] : Pos(Root(t)) <= Pos(Root(p))
  BY <1>8, <1>9, <1>10, <1>11, MergingApart
<1>14. Nodes(m[S]) = UNION S
  BY <1>6, <1>7, <1>12 DEF Merges
<1>15. Leaves(m[S]) \subseteq {Tip(q) : q \in S}
  BY <1>6, <1>7, <1>12 DEF Merges
<1>16. Merges(S, m[S])
  BY <1>6, <1>12, <1>13, <1>14, <1>15 DEF Merges
<1>17. QED
  BY <1>4, <1>16

LEMMA RepairStems ==
    ASSUME NEW F, Grove(F), NEW limit \in Nat \ {0}
    PROVE  Stems(F, CouchRepair(F, limit)) /\ Disjoint(CouchRepair(F, limit))
<1> DEFINE U == UNION {Branches(t, limit) : t \in F}
<1>1. ASSUME NEW t \in F
      PROVE  /\ \A b \in Branches(t, limit) :
                    b \subseteq t /\ \E l \in LeavesOf(t) : Path(b, l)
             /\ \A l \in LeavesOf(t) : \E b \in Branches(t, limit) : Path(b, l)
  BY BranchesAre DEF Grove
<1>2. UNION U \subseteq Nodes(F)
  BY <1>1 DEF Nodes
<1>3. ASSUME NEW b \in U PROVE Path(b, Tip(b)) /\ Tip(b) \in Leaves(F)
  <2>1. PICK t \in F : b \in Branches(t, limit)
    OBVIOUS
  <2>2. PICK l \in LeavesOf(t) : Path(b, l)
    BY <1>1, <2>1
  <2>3. Tip(b) = l
    BY <2>2, PathIs
  <2>4. QED
    BY <2>2, <2>3 DEF Leaves
<1>4. ArePaths(U)
  BY <1>2, <1>3, FS_Subset DEF ArePaths, Grove
<1> DEFINE m == CHOOSE f : Repairs(U, f)
<1>5. CouchRepair(F, limit) = m[U]
  BY DEF CouchRepair, Repairs
<1>6. Repairs(U, m)
  <2> HIDE DEF U
  <2>1. QED
    BY <1>4, RepairExists
<1>7. Merges(U, m[U])
  <2> HIDE DEF U, m
  <2>1. QED
    BY <1>4, <1>6, RepairIs
<1>8. Leaves(F) \subseteq UNION U
  BY <1>1, PathIs DEF Leaves
<1>9. Stems(F, m[U]) /\ Disjoint(m[U])
  <2> HIDE DEF U, m
  <2>1. QED
    BY <1>2, <1>3, <1>7, <1>8 DEF Merges, Stems
<1>10. QED
  <2> HIDE DEF U, m
  <2>1. QED
    BY <1>5, <1>9

LEMMA CouchStems ==
    ASSUME NEW F, Grove(F), NEW limit \in Nat \ {0}
    PROVE  Stems(F, CouchStem(F, limit)) /\ Disjoint(CouchStem(F, limit))
<1>1. CASE Overlapping(F)
  BY <1>1, RepairStems DEF CouchStem
<1>2. CASE ~ Overlapping(F)
  BY <1>2, StemApart
<1>3. QED
  BY <1>1, <1>2
-----------------------------------------------------------------------------
(* Nothing delivered is lost.                                              *)

Woods(F) == (\A t \in F : Tree(t)) /\ IsFiniteSet(Nodes(F))

HeadsOf(D) == {r \in D : \A s \in D \ {r} : r \notin Lineage[s]}

\* The trees hold parts of delivered histories, among them all heads, and end
\* in nothing but delivered revisions.
Shown(F, D) ==
    /\ D \subseteq Rev
    /\ Woods(F)
    /\ \A x \in Nodes(F) : \E d \in D : x \in Lineage[d]
    /\ HeadsOf(D) \subseteq Nodes(F)
    /\ Leaves(F) \subseteq D

LEMMA GroveIsWoods == ASSUME NEW F, Grove(F) PROVE Woods(F)
BY DEF Grove, Woods

LEMMA HeadsAreLeaves ==
    ASSUME NEW F, NEW D, D \subseteq Rev, Woods(F),
           \A x \in Nodes(F) : \E d \in D : x \in Lineage[d]
    PROVE  HeadsOf(D) \cap Nodes(F) \subseteq Leaves(F)
<1>1. ASSUME NEW h \in HeadsOf(D), NEW t \in F, h \in t, NEW x \in t, Parent[x] = h
      PROVE  FALSE
  <2>1. x \in Rev /\ h \in Rev /\ Parent[x] # NoRev
    BY <1>1, TreeType, RevType DEF Woods
  <2>2. PICK d \in D : x \in Lineage[d]
    BY DEF Nodes
  <2>3. h \in Lineage[x]
    BY <1>1, <2>1, ParentAbove
  <2>4. h \in Lineage[d] /\ d \in Rev
    BY <2>2, <2>3, LineageWithin
  <2>5. d = h
    BY <2>2, <2>4 DEF HeadsOf
  <2>6. x = h
    BY <2>1, <2>2, <2>3, <2>5, LineageOrder
  <2>7. QED
    BY <1>1, <2>1, <2>6, RevType
<1>2. QED
  BY <1>1 DEF Nodes, Leaves, LeavesOf

LEMMA ShownLeaves ==
    ASSUME NEW F, NEW D, Shown(F, D)
    PROVE  HeadsOf(D) \subseteq Leaves(F) /\ Leaves(F) \subseteq D
BY HeadsAreLeaves DEF Shown

LEMMA HeadsGrow ==
    ASSUME NEW D, NEW l
    PROVE  HeadsOf(D \cup {l}) \subseteq HeadsOf(D) \cup {l}
BY DEF HeadsOf

LEMMA StemShown ==
    ASSUME NEW F, NEW D, Shown(F, D), NEW G, Stems(F, G)
    PROVE  Shown(G, D) /\ Grove(G)
<1>1. HeadsOf(D) \subseteq Leaves(F)
  BY ShownLeaves
<1>2. QED
  BY <1>1, GroveIsWoods DEF Shown, Stems

LEMMA ArrivalShown ==
    ASSUME NEW F, NEW D, Shown(F, D), NEW p, NEW l, Path(p, l), NEW M, Woods(M),
           Nodes(F) \subseteq Nodes(M), Nodes(M) \subseteq Nodes(F) \cup p, l \in Nodes(M),
           Leaves(M) \subseteq Leaves(F) \cup {l}
    PROVE  Shown(M, D \cup {l})
<1>1. l \in Rev /\ p \subseteq Lineage[l]
  BY PathIs DEF Path
<1>2. \A x \in Nodes(M) : \E d \in D \cup {l} : x \in Lineage[d]
  BY <1>1 DEF Shown
<1>3. HeadsOf(D \cup {l}) \subseteq Nodes(M)
  BY HeadsGrow DEF Shown
<1>4. QED
  BY <1>1, <1>2, <1>3 DEF Shown

LEMMA UnchangedShown ==
    ASSUME NEW F, NEW D, Shown(F, D), NEW l \in Rev,
           l \in Nodes(F) \/ l \notin HeadsOf(D \cup {l})
    PROVE  Shown(F, D \cup {l})
<1>1. HeadsOf(D \cup {l}) \subseteq Nodes(F)
  BY HeadsGrow DEF Shown
<1>2. QED
  BY <1>1 DEF Shown

LEMMA MergeShown ==
    ASSUME NEW F, Grove(F), NEW D, Shown(F, D), NEW p, NEW l, Path(p, l)
    PROVE  Shown(CouchMerge(F, p), D \cup {l}) /\ Grove(CouchMerge(F, p))
<1> DEFINE M == CouchMerge(F, p)
<1>1. /\ Grove(M) /\ Nodes(M) = Nodes(F) \cup p
      /\ Leaves(M) \subseteq Leaves(F) \cup {l}
  BY Merging
<1>2. l \in Nodes(M)
  BY <1>1, PathIs
<1> HIDE DEF M
<1>3. Shown(M, D \cup {l})
  BY <1>1, <1>2, ArrivalShown, GroveIsWoods
<1>4. QED
  BY <1>1, <1>3 DEF M

\* A revision that would be no leaf is no head.
LEMMA NoNewLeafShown ==
    ASSUME NEW F, Grove(F), NEW D, Shown(F, D), NEW doc, IsDocument(doc),
           NoNewLeaf(F, doc)
    PROVE  Shown(F, D \cup {doc.rev})
<1>1. doc.rev \in Rev /\ Path(doc.ids, doc.rev)
  BY DocumentIsPath
<1> DEFINE M == CouchMerge(F, doc.ids)
<1>2. Shown(M, D \cup {doc.rev})
  BY <1>1, MergeShown
<1>3. doc.rev \notin Leaves(M) => doc.rev \notin HeadsOf(D \cup {doc.rev})
  BY <1>2, ShownLeaves
<1>4. doc.rev \in Leaves(F) => doc.rev \in Nodes(F)
  BY DEF Leaves, LeavesOf, Nodes
<1>5. QED
  BY <1>1, <1>3, <1>4, UnchangedShown DEF NoNewLeaf

LEMMA CouchShown ==
    ASSUME NEW F, Grove(F), NEW D, Shown(F, D), NEW doc, IsDocument(doc),
           NEW limit \in Nat \ {0}
    PROVE  /\ Grove(CouchUnvalidated(F, doc, limit))
           /\ Disjoint(CouchUnvalidated(F, doc, limit))
           /\ Shown(CouchUnvalidated(F, doc, limit), D \cup {doc.rev})
           /\ Grove(CouchUpdate(F, doc, limit))
           /\ Disjoint(F) => Disjoint(CouchUpdate(F, doc, limit))
           /\ Shown(CouchUpdate(F, doc, limit), D \cup {doc.rev})
           /\ Grove(CouchRawUpdate(F, doc))
           /\ Shown(CouchRawUpdate(F, doc), D \cup {doc.rev})
<1> DEFINE M == CouchMerge(F, doc.ids)
           G == CouchStem(M, limit)
<1>1. Shown(M, D \cup {doc.rev}) /\ Grove(M)
  BY DocumentIsPath, MergeShown
<1>2. Stems(M, G) /\ Disjoint(G)
  BY <1>1, CouchStems
<1>3. Shown(G, D \cup {doc.rev}) /\ Grove(G)
  BY <1>1, <1>2, StemShown
<1>4. NoNewLeaf(F, doc) => Shown(F, D \cup {doc.rev})
  BY NoNewLeafShown
<1> HIDE DEF M
<1>5. G = CouchUnvalidated(F, doc, limit)
  BY DEF CouchUnvalidated, M
<1> HIDE DEF G
<1>6. CASE NoNewLeaf(F, doc)
  BY <1>2, <1>3, <1>4, <1>5, <1>6 DEF CouchUpdate, CouchRawUpdate
<1>7. CASE ~ NoNewLeaf(F, doc)
  BY <1>1, <1>2, <1>3, <1>5, <1>7 DEF CouchUpdate, CouchRawUpdate, M
<1>8. QED
  BY <1>6, <1>7

\* Each leaf ends one tree.
LeavesApart(F) ==
    \A t, u \in F : t # u => LeavesOf(t) \cap LeavesOf(u) = {}

LEMMA ApartLeaves == ASSUME NEW F, Disjoint(F) PROVE LeavesApart(F)
BY DEF Disjoint, LeavesApart, LeavesOf

LEMMA RawLeavesApart ==
    ASSUME NEW F, Grove(F), LeavesApart(F), NEW doc, IsDocument(doc)
    PROVE  LeavesApart(CouchRawUpdate(F, doc))
<1> DEFINE p == doc.ids
           l == doc.rev
           M == CouchMerge(F, p)
<1>1. CASE NoNewLeaf(F, doc)
  BY <1>1 DEF CouchRawUpdate
<1>2. CASE ~ NoNewLeaf(F, doc)
  <2>1. CouchRawUpdate(F, doc) = M
    BY <1>2 DEF CouchRawUpdate
  <2>2. LeavesOf(p) = {l}
    BY DocumentIsPath, PathIs
  <2>3. F = {} \/ l \notin Leaves(F)
    BY <1>2 DEF NoNewLeaf
  <2>4. l \notin Leaves(F)
    BY <2>3, EmptyGrove
  <2>5. CASE M = F \cup {p}
    BY <2>1, <2>2, <2>4, <2>5 DEF LeavesApart, Leaves
  <2>6. ASSUME NEW t \in F, M = (F \ {t}) \cup {t \cup p} PROVE LeavesApart(M)
    <3>1. LeavesOf(t \cup p) \subseteq LeavesOf(t) \cup {l}
      BY <2>2, LeavesJoined
    <3>2. ASSUME NEW u \in F \ {t} PROVE LeavesOf(u) \cap LeavesOf(t \cup p) = {}
      BY <2>4, <3>1 DEF LeavesApart, Leaves
    <3>3. QED
      BY <2>6, <3>2 DEF LeavesApart
  <2>7. M = F \cup {p} \/ \E t \in F : M = (F \ {t}) \cup {t \cup p}
    BY MergeIs
  <2>8. QED
    BY <2>1, <2>5, <2>6, <2>7
<1>3. QED
  BY <1>1, <1>2
-----------------------------------------------------------------------------
(* PouchDB merges.                                                         *)

LastTree(S) == CHOOSE u \in S : \A v \in S \ {u} : Before(v, u)

Grafts(F, path, g) ==
    g = [S \in SUBSET F |->
            IF S = {} THEN path
            ELSE LET t == CHOOSE u \in S : \A v \in S \ {u} : Before(v, u)
                     p == g[S \ {t}]
                 IN  IF OnPath(t, p) THEN p \cup t ELSE p]

Graft(t, X) == IF OnPath(t, X) THEN X \cup t ELSE X

LEMMA LastTreeIs ==
    ASSUME NEW F, Grove(F), NEW S \in SUBSET F, S # {}
    PROVE  LastTree(S) \in S /\ \A u \in S \ {LastTree(S)} : Before(u, LastTree(S))
<1>1. \E t \in S : \A u \in S \ {t} : Before(u, t)
  BY FirstTree
<1>2. QED
  BY <1>1 DEF LastTree

LEMMA GraftExists ==
    ASSUME NEW F, Grove(F), NEW p \in SUBSET Rev
    PROVE  \E g : Grafts(F, p, g)
<1> DEFINE c == [S \in SUBSET F |-> LastTree(S)]
           step(S, X) == IF S = {} THEN p ELSE Graft(LastTree(S), X)
           V == SUBSET Rev
           G == [x \in (SUBSET F) \X V |-> step(x[1], x[2])]
<1>1. IsFiniteSet(F)
  BY GroveFinite DEF Grove
<1>2. Chooses(F, c)
  BY LastTreeIs DEF Chooses
<1>3. p \in V
  OBVIOUS
<1>4. ASSUME NEW S \in SUBSET F, NEW X \in V PROVE step(S, X) \in V
  <2>1. CASE S = {}
    BY <2>1
  <2>2. CASE S # {}
    <3>1. LastTree(S) \in F
      BY <2>2, LastTreeIs
    <3>2. LastTree(S) \subseteq Rev
      BY <3>1, TreeType DEF Grove
    <3>3. QED
      BY <2>2, <3>2 DEF Graft
  <2>3. QED
    BY <2>1, <2>2
<1> HIDE DEF V
<1>5. G \in [(SUBSET F) \X V -> V]
  <2> HIDE DEF step
  <2>1. \A x \in (SUBSET F) \X V : step(x[1], x[2]) \in V
    BY <1>4
  <2>2. QED
    BY <2>1
<1>6. PICK h \in [SUBSET F -> V] :
         h[{}] = p /\ \A S \in SUBSET F : S # {} => h[S] = G[<<S, h[S \ {c[S]}]>>]
  <2> HIDE DEF c, G, step
  <2>1. SetStepper(F, V, p, c, G)
    BY <1>1, <1>2, <1>3, <1>5 DEF SetStepper
  <2>2. PICK h : SolvesAll(F, V, p, c, G, h)
    BY <2>1, SetRecursion
  <2>3. QED
    BY <2>2 DEF SolvesAll
<1>7. ASSUME NEW S \in SUBSET F, S # {}
      PROVE  h[S] = Graft(LastTree(S), h[S \ {LastTree(S)}])
  <2>1. h[S] = G[<<S, h[S \ {LastTree(S)}]>>]
    BY <1>6, <1>7
  <2>2. h[S \ {LastTree(S)}] \in V
    OBVIOUS
  <2>3. G[<<S, h[S \ {LastTree(S)}]>>] = step(S, h[S \ {LastTree(S)}])
    <3> HIDE DEF step
    <3>1. QED
      BY <2>2
  <2>4. QED
    BY <1>7, <2>1, <2>3
<1>8. h = [S \in SUBSET F |-> IF S = {} THEN p ELSE Graft(LastTree(S), h[S \ {LastTree(S)}])]
  BY <1>6, <1>7
<1>9. Grafts(F, p, h)
  BY <1>8 DEF Grafts, LastTree, Graft
<1>10. QED
  BY <1>9

\* The path with the trees of S that stand on it: all of each of them.
Grafting(S, p, l, X) ==
    /\ Tree(X) /\ Root(X) = Root(p)
    /\ p \subseteq X /\ X \subseteq p \cup Nodes(S)
    /\ \A r \in LeavesOf(X) : r = l \/ \E t \in S : t \subseteq X /\ r \in LeavesOf(t)
    /\ \A t \in S : Root(t) \in X /\ Root(t) # Root(p) => t \subseteq X
    /\ l \notin Nodes(S) => \A x \in X : Parent[x] # l

LEMMA GraftStep ==
    ASSUME NEW F, Grove(F), NEW p, NEW l, Path(p, l),
           NEW S \in SUBSET F, NEW u \in S, \A t \in S \ {u} : Before(t, u),
           NEW X, Grafting(S \ {u}, p, l, X)
    PROVE  Grafting(S, p, l, Graft(u, X))
<1> DEFINE Y == Graft(u, X)
<1>1. Tree(u) /\ \A t \in S : Tree(t)
  BY DEF Grove
<1>2. /\ Tree(X) /\ Root(X) = Root(p) /\ p \subseteq X
      /\ X \subseteq p \cup Nodes(S \ {u})
  BY DEF Grafting
<1>3. Tree(Y) /\ Root(Y) = Root(p)
  BY <1>1, <1>2, Joined DEF Graft, OnPath
<1>4. X \subseteq Y /\ Y \subseteq X \cup u
  BY DEF Graft
<1>5. p \subseteq Y /\ Y \subseteq p \cup Nodes(S)
  BY <1>2, <1>4 DEF Nodes
<1>6. ASSUME NEW r \in LeavesOf(Y)
      PROVE  r = l \/ \E t \in S : t \subseteq Y /\ r \in LeavesOf(t)
  <2>1. CASE Y = X
    BY <2>1 DEF Grafting
  <2>2. CASE Y = X \cup u
    BY <2>2, LeavesJoined DEF Grafting
  <2>3. QED
    BY <2>1, <2>2 DEF Graft
<1>7. ASSUME NEW t \in S, Root(t) \in Y, Root(t) # Root(p) PROVE t \subseteq Y
  <2>1. CASE t = u
    <3>1. SUFFICES ASSUME Y # X \cup u PROVE FALSE
      BY <2>1
    <3>2. Y = X /\ ~ OnPath(u, X)
      BY <3>1 DEF Graft
    <3>3. Root(p) \in Lineage[Root(u)] /\ Root(u) \in Rev
      BY <1>1, <1>2, <1>7, <2>1, <3>2, TreeType
    <3>4. Pos(Root(u)) \in Nat /\ Pos(Root(p)) \in Nat /\ Pos(Root(u)) >= Pos(Root(p))
      BY <3>3, PosGrows, PosType
    <3>5. QED
      BY <1>2, <1>7, <2>1, <3>2, <3>4 DEF OnPath
  <2>2. CASE t # u
    <3>1. Tree(t) /\ Root(t) # Root(u) /\ Before(t, u)
      BY <1>1, <2>2 DEF Grove
    <3>2. Root(t) \notin u
      <4>1. SUFFICES ASSUME Root(t) \in u PROVE FALSE
        OBVIOUS
      <4>2. Root(u) \in Lineage[Root(t)] /\ Root(t) \in Rev
        BY <1>1, <4>1, TreeType
      <4>3. Pos(Root(u)) < Pos(Root(t)) /\ Root(u) <= Root(t)
        BY <3>1, <4>2, PosGrows, LineageType
      <4>4. /\ Root(t) \in Nat /\ Pos(Root(t)) \in Nat
            /\ Root(u) \in Nat /\ Pos(Root(u)) \in Nat
        BY <1>1, <3>1, RootType
      <4>5. QED
        BY <3>1, <4>3, <4>4 DEF Before
    <3>3. Root(t) \in X
      BY <1>4, <1>7, <3>2
    <3>4. t \subseteq X
      BY <1>7, <2>2, <3>3 DEF Grafting
    <3>5. QED
      BY <1>4, <3>4
  <2>3. QED
    BY <2>1, <2>2
<1>8. ASSUME l \notin Nodes(S), NEW x \in Y, Parent[x] = l PROVE FALSE
  <2>1. \A z \in X : Parent[z] # l
    BY <1>8 DEF Grafting, Nodes
  <2>2. x \in u /\ OnPath(u, X)
    BY <1>8, <2>1 DEF Graft
  <2>3. x # Root(u)
    BY <1>8, <2>1, <2>2 DEF OnPath
  <2>4. l \in u
    BY <1>1, <1>8, <2>2, <2>3, ParentInTree
  <2>5. QED
    BY <1>8, <2>4 DEF Nodes
<1> HIDE DEF Y
<1>9. Grafting(S, p, l, Y)
  BY <1>3, <1>5, <1>6, <1>7, <1>8 DEF Grafting
<1>10. QED
  BY <1>9 DEF Y

LEMMA GraftIs ==
    ASSUME NEW F, Grove(F), NEW p, NEW l, Path(p, l), NEW g, Grafts(F, p, g)
    PROVE  Grafting(F, p, l, g[F])
<1>1. g[{}] = p /\ \A S \in SUBSET F :
          S # {} => g[S] = Graft(LastTree(S), g[S \ {LastTree(S)}])
  BY DEF Grafts, LastTree, Graft
<1> DEFINE Bad == {S \in SUBSET F : ~ Grafting(S, p, l, g[S])}
<1>2. SUFFICES ASSUME Bad # {} PROVE FALSE
  OBVIOUS
<1>3. IsFiniteSet(F)
  BY GroveFinite DEF Grove
<1>4. PICK S \in Bad : \A x \in S : S \ {x} \notin Bad
  <2>1. Bad \subseteq SUBSET F
    OBVIOUS
  <2> HIDE DEF Bad
  <2>2. QED
    BY <1>2, <1>3, <2>1, SmallestSet
<1>5. S # {}
  <2>1. Tree(p) /\ LeavesOf(p) = {l} /\ \A x \in p : Parent[x] # l
    BY PathIs DEF LeavesOf
  <2>2. Grafting({}, p, l, p)
    BY <2>1 DEF Grafting
  <2>3. QED
    BY <1>1, <2>2
<1> DEFINE u == LastTree(S)
<1>6. u \in S /\ \A t \in S \ {u} : Before(t, u)
  BY <1>5, LastTreeIs
<1>7. S \ {u} \in SUBSET F /\ S \ {u} \notin Bad
  BY <1>4, <1>6
<1>8. Grafting(S \ {u}, p, l, g[S \ {u}])
  BY <1>7
<1>9. g[S] = Graft(u, g[S \ {u}])
  BY <1>1, <1>5
<1> HIDE DEF u
<1>10. Grafting(S, p, l, g[S])
  BY <1>6, <1>8, <1>9, GraftStep
<1>11. QED
  BY <1>4, <1>10
\* What becomes of a tree when X is the path with the trees on it.
Taken(t, p, X) ==
    IF Root(p) \in t THEN t \cup {r \in X : Lineage[r] \cap (p \ t) # {}}
    ELSE IF Root(t) \in X THEN X
    ELSE t

\* Every branch of the tree goes at least n revisions back.
DeepTree(t, n) ==
    \A r \in LeavesOf(t) : \A x \in Lineage[r] : Pos(x) > Pos(r) - n => x \in t

Deep(F, n) == \A t \in F : DeepTree(t, n)

LEMMA PouchMergeIs ==
    ASSUME NEW F, Grove(F), NEW p, NEW l, Path(p, l)
    PROVE  \E X :
              /\ Grafting(F, p, l, X)
              /\ PouchMerge(F, p) =
                    {Taken(t, p, X) : t \in F}
                    \cup (IF {t \in F : Root(p) \in t \/ Root(t) \in X} = {}
                          THEN {p} ELSE {})
<1> DEFINE g == CHOOSE f : Grafts(F, p, f)
<1>1. p \in SUBSET Rev
  BY PathIs, TreeType
<1>2. Grafts(F, p, g)
  BY <1>1, GraftExists
<1>3. PouchMerge(F, p) =
         {Taken(t, p, g[F]) : t \in F}
         \cup (IF {t \in F : Root(p) \in t \/ Root(t) \in g[F]} = {}
               THEN {p} ELSE {})
  BY DEF PouchMerge, Grafts, Taken
<1> HIDE DEF g
<1>4. Grafting(F, p, l, g[F])
  BY <1>2, GraftIs
<1>5. QED
  BY <1>3, <1>4

LEMMA TakenIs ==
    ASSUME NEW F, Grove(F), NEW p, NEW l, Path(p, l), l \notin Nodes(F),
           NEW X, Grafting(F, p, l, X), NEW t \in F
    PROVE  /\ Tree(Taken(t, p, X))
           /\ t \subseteq Taken(t, p, X) /\ Taken(t, p, X) \subseteq t \cup X
           /\ LeavesOf(Taken(t, p, X)) \subseteq LeavesOf(t) \cup LeavesOf(X)
           /\ Root(p) \in t \/ Root(t) \in X => l \in LeavesOf(Taken(t, p, X))
           /\ Root(Taken(t, p, X)) \in {Root(t), Root(p)}
           /\ \A n : DeepTree(t, n) /\ DeepTree(X, n) => DeepTree(Taken(t, p, X), n)
<1> DEFINE m == Taken(t, p, X)
           a == Root(t)
           b == Root(p)
<1>1. /\ Tree(t) /\ Tree(p) /\ Tree(X) /\ Root(X) = b
      /\ p \subseteq X /\ l \in p /\ l \notin t /\ l \in Rev
      /\ t \subseteq Rev /\ X \subseteq Rev /\ a \in t /\ a \in Rev /\ b \in p
  BY PathIs, TreeType DEF Grove, Grafting, Nodes
<1>2. \A x \in X : Parent[x] # l
  BY DEF Grafting
<1>3. CASE Root(p) \in t
  <2> DEFINE W == {r \in X : Lineage[r] \cap (p \ t) # {}}
  <2>1. m = t \cup W
    BY <1>3 DEF Taken
  <2>2. a \in Lineage[b]
    BY <1>1, <1>3, TreeType
  <2>3. ASSUME NEW r \in X PROVE r \in Rev /\ b \in Lineage[r] /\ a \in Lineage[r]
    BY <1>1, <2>2, TreeType, LineageWithin
  <2>4. ASSUME NEW r \in W, NEW y \in Segment(a, r) PROVE y \in t \cup W
    <3>1. r \in X /\ r \in Rev /\ b \in Lineage[r] /\ y \in Lineage[r] /\ a \in Lineage[y]
          /\ y \in Rev
      BY <2>3, LineageWithin DEF Segment
    <3>2. PICK z \in Lineage[r] : z \in p /\ z \notin t
      OBVIOUS
    <3>3. CASE y \in Lineage[b]
      BY <1>1, <1>3, <3>1, <3>3, TreeHolds
    <3>4. CASE b \in Lineage[y]
      <4>1. y \in X
        BY <1>1, <3>1, <3>4, TreeHolds
      <4>2. CASE z \in Lineage[y]
        BY <3>2, <4>1, <4>2
      <4>3. CASE y \in Lineage[z]
        <5>1. y \in p
          BY <1>1, <3>2, <3>4, <4>3, TreeHolds
        <5>2. y \in Lineage[y]
          BY <3>1, LineageType
        <5>3. QED
          BY <4>1, <5>1, <5>2
      <4>4. QED
        BY <3>1, <3>2, <4>2, <4>3, LineageChain
    <3>5. QED
      BY <3>1, <3>3, <3>4, LineageChain
  <2>5. RootedAt(m, a)
    <3>1. m \subseteq Rev /\ a \in m
      BY <1>1, <2>1
    <3>2. ASSUME NEW r \in m PROVE a \in Lineage[r] /\ Segment(a, r) \subseteq m
      <4>1. CASE r \in t
        BY <1>1, <2>1, <4>1, TreeType
      <4>2. CASE r \in W
        BY <2>1, <2>3, <2>4, <4>2
      <4>3. QED
        BY <2>1, <4>1, <4>2
    <3> HIDE DEF m, a
    <3>3. QED
      BY <3>1, <3>2 DEF RootedAt
  <2>6. Tree(m) /\ Root(m) = a
    BY <2>5, RootIs
  <2>7. ASSUME NEW r \in LeavesOf(m) PROVE r \in LeavesOf(t) \/ r \in LeavesOf(X)
    <3>1. CASE r \in t
      BY <2>1, <3>1 DEF LeavesOf
    <3>2. CASE r \in W
      <4>1. ASSUME NEW x \in X, Parent[x] = r PROVE x \in W
        <5>1. x \in Rev /\ r \in Rev /\ Parent[x] # NoRev
          BY <1>1, <3>2, <4>1, RevType
        <5>2. Lineage[r] \subseteq Lineage[x]
          BY <4>1, <5>1, ParentAbove
        <5>3. QED
          BY <3>2, <5>2
      <4>2. QED
        BY <2>1, <3>2, <4>1 DEF LeavesOf
    <3>3. QED
      BY <2>1, <3>1, <3>2 DEF LeavesOf
  <2>8. l \in LeavesOf(m)
    <3>1. l \in Lineage[l] /\ l \in X
      BY <1>1, LineageType
    <3>2. l \in m
      BY <1>1, <2>1, <3>1
    <3>3. ASSUME NEW c \in t, Parent[c] = l PROVE FALSE
      <4>1. c = a
        BY <1>1, <3>3, ParentInTree
      <4>2. a \in Lineage[l]
        BY <2>6, <3>2, TreeType
      <4>3. a <= l /\ Parent[a] < a /\ a \in Nat /\ l \in Nat
        BY <1>1, <4>2, LineageType, RevType
      <4>4. QED
        BY <3>3, <4>1, <4>3
    <3>4. \A c \in X : Parent[c] # l
      BY <1>2
    <3>5. QED
      BY <2>1, <3>2, <3>3, <3>4 DEF LeavesOf
  <2>9. ASSUME NEW n, DeepTree(t, n), DeepTree(X, n) PROVE DeepTree(m, n)
    <3>1. ASSUME NEW r \in LeavesOf(m), NEW x \in Lineage[r], Pos(x) > Pos(r) - n
          PROVE  x \in m
      <4>1. CASE r \in LeavesOf(t)
        BY <2>1, <2>9, <3>1, <4>1 DEF DeepTree
      <4>2. CASE r \in LeavesOf(X)
        <5>1. x \in X
          BY <2>9, <3>1, <4>2 DEF DeepTree
        <5>2. a \in Lineage[x] /\ r \in m
          BY <2>3, <5>1 DEF LeavesOf
        <5>3. QED
          BY <2>6, <5>2, TreeHolds
      <4>3. QED
        BY <2>7, <4>1, <4>2
    <3> HIDE DEF m
    <3>2. QED
      BY <3>1 DEF DeepTree
  <2>10. QED
    BY <2>1, <2>6, <2>7, <2>8, <2>9
<1>4. CASE Root(p) \notin t /\ Root(t) \in X
  <2>1. m = X
    BY <1>4 DEF Taken
  <2>2. Root(t) # Root(p)
    BY <1>1, <1>4
  <2>3. t \subseteq X
    BY <1>4, <2>2 DEF Grafting
  <2>4. l \in LeavesOf(X)
    BY <1>1, <1>2 DEF LeavesOf
  <2>5. QED
    BY <1>1, <2>1, <2>3, <2>4
<1>5. CASE Root(p) \notin t /\ Root(t) \notin X
  BY <1>1, <1>5 DEF Taken
<1>6. QED
  BY <1>3, <1>4, <1>5

LEMMA PouchMerging ==
    ASSUME NEW F, Grove(F), NEW p, NEW l, Path(p, l), l \notin Nodes(F)
    PROVE  /\ Woods(PouchMerge(F, p))
           /\ Nodes(F) \subseteq Nodes(PouchMerge(F, p))
           /\ Nodes(PouchMerge(F, p)) \subseteq Nodes(F) \cup p
           /\ l \in Leaves(PouchMerge(F, p)) /\ l \in Nodes(PouchMerge(F, p))
           /\ Leaves(PouchMerge(F, p)) \subseteq Leaves(F) \cup {l}
           /\ \A m \in PouchMerge(F, p) : Root(m) \in {Root(t) : t \in F} \cup {Root(p)}
           /\ \A n : Deep(F, n) /\ DeepTree(p, n) => Deep(PouchMerge(F, p), n)
<1> DEFINE M == PouchMerge(F, p)
<1>1. PICK X : /\ Grafting(F, p, l, X)
               /\ M = {Taken(t, p, X) : t \in F}
                      \cup (IF {t \in F : Root(p) \in t \/ Root(t) \in X} = {}
                            THEN {p} ELSE {})
  BY PouchMergeIs
<1> HIDE DEF M
<1>2. Tree(p) /\ l \in p /\ LeavesOf(p) = {l} /\ IsFiniteSet(p)
  BY PathIs
<1>3. ASSUME NEW t \in F
      PROVE  /\ Tree(Taken(t, p, X))
             /\ t \subseteq Taken(t, p, X) /\ Taken(t, p, X) \subseteq t \cup X
             /\ LeavesOf(Taken(t, p, X)) \subseteq LeavesOf(t) \cup LeavesOf(X)
             /\ Root(p) \in t \/ Root(t) \in X => l \in LeavesOf(Taken(t, p, X))
             /\ Root(Taken(t, p, X)) \in {Root(t), Root(p)}
             /\ \A n : DeepTree(t, n) /\ DeepTree(X, n) => DeepTree(Taken(t, p, X), n)
             /\ Taken(t, p, X) \in M
  BY <1>1, TakenIs
<1>4. ASSUME NEW m \in M PROVE m = p \/ \E t \in F : m = Taken(t, p, X)
  BY <1>1
<1>5. X \subseteq Nodes(F) \cup p /\ LeavesOf(X) \subseteq Leaves(F) \cup {l}
  BY <1>1 DEF Grafting, Leaves
<1>6. Nodes(M) \subseteq Nodes(F) \cup p
  <2>1. ASSUME NEW m \in M PROVE m \subseteq Nodes(F) \cup p
    BY <1>3, <1>4, <1>5 DEF Nodes
  <2>2. QED
    BY <2>1 DEF Nodes
<1>7. Nodes(F) \subseteq Nodes(M)
  BY <1>3 DEF Nodes
<1>8. l \in Leaves(M) /\ l \in Nodes(M)
  <2>1. CASE {t \in F : Root(p) \in t \/ Root(t) \in X} = {}
    BY <1>1, <1>2, <2>1 DEF Nodes, Leaves
  <2>2. CASE {t \in F : Root(p) \in t \/ Root(t) \in X} # {}
    BY <1>3, <2>2 DEF Nodes, Leaves, LeavesOf
  <2>3. QED
    BY <2>1, <2>2
<1>9. Leaves(M) \subseteq Leaves(F) \cup {l}
  <2>1. ASSUME NEW m \in M PROVE LeavesOf(m) \subseteq Leaves(F) \cup {l}
    <3>1. CASE m = p
      BY <1>2, <3>1
    <3>2. ASSUME NEW t \in F, m = Taken(t, p, X)
          PROVE  LeavesOf(m) \subseteq Leaves(F) \cup {l}
      <4>1. LeavesOf(m) \subseteq LeavesOf(t) \cup LeavesOf(X)
        BY <1>3, <3>2
      <4>2. LeavesOf(t) \subseteq Leaves(F)
        BY DEF Leaves
      <4>3. QED
        BY <1>5, <4>1, <4>2
    <3>3. QED
      BY <1>4, <3>1, <3>2
  <2>2. QED
    BY <2>1 DEF Leaves
<1>10. Woods(M)
  <2>1. \A m \in M : Tree(m)
    BY <1>2, <1>3, <1>4
  <2>2. IsFiniteSet(Nodes(F) \cup p)
    BY <1>2, FS_Union DEF Grove
  <2>3. IsFiniteSet(Nodes(M))
    BY <1>6, <2>2, FS_Subset
  <2>4. QED
    BY <2>1, <2>3 DEF Woods
<1>11. ASSUME NEW n, Deep(F, n), DeepTree(p, n) PROVE Deep(M, n)
  <2>1. DeepTree(X, n)
    <3>1. ASSUME NEW r \in LeavesOf(X), NEW x \in Lineage[r], Pos(x) > Pos(r) - n
          PROVE  x \in X
      <4>1. CASE r = l
        <5>1. x \in p
          BY <1>2, <1>11, <3>1, <4>1 DEF DeepTree
        <5>2. QED
          BY <1>1, <5>1 DEF Grafting
      <4>2. ASSUME NEW t \in F, t \subseteq X, r \in LeavesOf(t) PROVE x \in X
        BY <1>11, <3>1, <4>2 DEF Deep, DeepTree
      <4>3. QED
        BY <1>1, <4>1, <4>2 DEF Grafting
    <3>2. QED
      BY <3>1 DEF DeepTree
  <2>2. ASSUME NEW m \in M PROVE DeepTree(m, n)
    <3>1. CASE m = p
      BY <1>11, <3>1
    <3>2. ASSUME NEW t \in F, m = Taken(t, p, X) PROVE DeepTree(m, n)
      BY <1>3, <1>11, <2>1, <3>2 DEF Deep
    <3>3. QED
      BY <1>4, <3>1, <3>2
  <2>3. QED
    BY <2>2 DEF Deep
<1>12. \A m \in M : Root(m) \in {Root(t) : t \in F} \cup {Root(p)}
  BY <1>3, <1>4
<1>13. QED
  BY <1>6, <1>7, <1>8, <1>9, <1>10, <1>11, <1>12 DEF M

-----------------------------------------------------------------------------
(* PouchDB cuts.                                                           *)

LEMMA PouchStems ==
    ASSUME NEW M, Woods(M), NEW limit \in Nat \ {0}
    PROVE  /\ Stems(M, PouchStem(M, limit))
           /\ Deep(M, limit) => /\ Deep(PouchStem(M, limit), limit)
                                /\ LeavesApart(PouchStem(M, limit))
<1> DEFINE U == UNION {Branches(t, limit) : t \in M}
           with(r) == UNION {b \in U : Root(b) = r}
           roots == {Root(b) : b \in U}
           G == {with(r) : r \in roots}
<1>1. PouchStem(M, limit) = G
  BY DEF PouchStem
<1>2. ASSUME NEW t \in M
      PROVE  /\ Tree(t)
             /\ \A b \in Branches(t, limit) :
                    b \subseteq t /\ \E l \in LeavesOf(t) : Path(b, l)
             /\ \A l \in LeavesOf(t) : \E b \in Branches(t, limit) : Path(b, l)
  BY BranchesAre DEF Woods
<1>3. ASSUME NEW b \in U
      PROVE  /\ Tree(b) /\ LeavesOf(b) = {Tip(b)}
             /\ \E t \in M : /\ b \subseteq t /\ Tip(b) \in LeavesOf(t)
                             /\ b = Branch(t, Tip(b), limit)
  <2>1. PICK t \in M : b \in Branches(t, limit)
    OBVIOUS
  <2>2. PICK l \in LeavesOf(t) : b = Branch(t, l, limit)
    BY <2>1 DEF Branches
  <2>3. Tree(t) /\ l \in t
    BY <1>2 DEF LeavesOf
  <2>4. Path(b, l) /\ b \subseteq t
    BY <2>2, <2>3, BranchIsPath
  <2>5. QED
    BY <2>2, <2>4, PathIs
<1>4. ASSUME NEW t \in M, NEW l \in LeavesOf(t) PROVE \E b \in U : l \in b
  BY <1>2, PathIs
<1> HIDE DEF U
<1>5. ASSUME NEW r \in roots PROVE Tree(with(r)) /\ Root(with(r)) = r
  <2>1. ASSUME NEW b \in U, Root(b) = r
        PROVE  /\ b \subseteq Rev /\ r \in b
               /\ \A z \in b : r \in Lineage[z] /\ Segment(r, z) \subseteq b
    BY <1>3, <2>1, TreeType
  <2>2. with(r) \subseteq Rev /\ r \in with(r)
    BY <2>1
  <2>3. \A z \in with(r) : r \in Lineage[z] /\ Segment(r, z) \subseteq with(r)
    BY <2>1
  <2> HIDE DEF with
  <2>4. RootedAt(with(r), r)
    BY <2>2, <2>3 DEF RootedAt
  <2>5. QED
    BY <2>4, RootIs
<1>6. ASSUME NEW r, NEW l \in LeavesOf(with(r))
      PROVE  \E b \in U : Root(b) = r /\ l = Tip(b)
  <2>1. PICK b \in U : Root(b) = r /\ l \in b
    BY DEF LeavesOf
  <2>2. l \in LeavesOf(b)
    BY <2>1 DEF LeavesOf
  <2>3. QED
    BY <1>3, <2>1, <2>2
<1>7. Nodes(G) \subseteq Nodes(M)
  <2>1. ASSUME NEW b \in U PROVE b \subseteq Nodes(M)
    BY <1>3 DEF Nodes
  <2>2. QED
    BY <2>1 DEF Nodes
<1>8. Leaves(M) \subseteq Nodes(G)
  <2>1. ASSUME NEW t \in M, NEW l \in LeavesOf(t) PROVE l \in Nodes(G)
    <3>1. PICK b \in U : l \in b
      BY <1>4
    <3>2. b \subseteq with(Root(b)) /\ Root(b) \in roots
      OBVIOUS
    <3>3. QED
      BY <3>1, <3>2 DEF Nodes
  <2>2. QED
    BY <2>1 DEF Leaves
<1>9. Leaves(G) \subseteq Leaves(M)
  <2> HIDE DEF with
  <2>1. ASSUME NEW r, NEW l \in LeavesOf(with(r)) PROVE l \in Leaves(M)
    BY <1>3, <1>6 DEF Leaves
  <2>2. QED
    BY <2>1 DEF Leaves
<1>10. Grove(G)
  <2>1. IsFiniteSet(Nodes(G))
    BY <1>7, FS_Subset DEF Woods
  <2> HIDE DEF with, roots
  <2>2. \A t \in G : Tree(t)
    BY <1>5
  <2>3. \A t, u \in G : Root(t) = Root(u) => t = u
    BY <1>5
  <2>4. QED
    BY <2>1, <2>2, <2>3 DEF Grove
<1>11. ASSUME Deep(M, limit), NEW b \in U
       PROVE  b = {x \in Lineage[Tip(b)] : Pos(x) > Pos(Tip(b)) - limit}
  <2>1. PICK t \in M : Tip(b) \in LeavesOf(t) /\ b = Branch(t, Tip(b), limit)
    BY <1>3
  <2>2. QED
    BY <1>11, <2>1 DEF Deep, DeepTree, Branch
<1>12. ASSUME Deep(M, limit) PROVE Deep(G, limit)
  <2>1. ASSUME NEW r \in roots, NEW l \in LeavesOf(with(r)), NEW x \in Lineage[l],
               Pos(x) > Pos(l) - limit
        PROVE  x \in with(r)
    <3>1. PICK b \in U : Root(b) = r /\ l = Tip(b)
      <4> HIDE DEF with
      <4>1. QED
        BY <1>6
    <3>2. x \in b
      BY <1>11, <1>12, <2>1, <3>1
    <3>3. QED
      BY <3>1, <3>2
  <2> HIDE DEF with, roots
  <2>2. QED
    BY <2>1 DEF Deep, DeepTree
<1>13. ASSUME Deep(M, limit) PROVE LeavesApart(G)
  <2> HIDE DEF with, roots
  <2>1. ASSUME NEW r, NEW s, NEW l, l \in LeavesOf(with(r)), l \in LeavesOf(with(s))
        PROVE  r = s
    <3>1. PICK b \in U : Root(b) = r /\ l = Tip(b)
      BY <1>6, <2>1
    <3>2. PICK d \in U : Root(d) = s /\ l = Tip(d)
      BY <1>6, <2>1
    <3>3. b = d
      BY <1>11, <1>13, <3>1, <3>2
    <3>4. QED
      BY <3>1, <3>2, <3>3
  <2>2. QED
    BY <2>1 DEF LeavesApart
<1> HIDE DEF G
<1>14. QED
  BY <1>1, <1>7, <1>8, <1>9, <1>10, <1>12, <1>13 DEF Stems

LEMMA PouchShown ==
    ASSUME NEW F, Grove(F), NEW D, Shown(F, D), NEW doc, IsDocument(doc),
           NEW limit \in Nat \ {0}
    PROVE  /\ Grove(PouchUpdate(F, doc, limit))
           /\ Shown(PouchUpdate(F, doc, limit), D \cup {doc.rev})
           /\ Deep(F, limit) /\ LeavesApart(F) /\ DeepTree(doc.ids, limit) =>
                 /\ Deep(PouchUpdate(F, doc, limit), limit)
                 /\ LeavesApart(PouchUpdate(F, doc, limit))
<1> DEFINE p == doc.ids
           l == doc.rev
           M == PouchMerge(F, p)
           G == PouchStem(M, limit)
<1>1. l \in Rev /\ Path(p, l)
  BY DocumentIsPath
<1>2. CASE l \in Nodes(F)
  <2>1. PouchUpdate(F, doc, limit) = F
    BY <1>2 DEF PouchUpdate
  <2>2. QED
    BY <1>1, <1>2, <2>1, UnchangedShown
<1>3. CASE l \notin Nodes(F)
  <2>1. PouchUpdate(F, doc, limit) = G
    BY <1>3 DEF PouchUpdate
  <2>2. /\ Woods(M) /\ Nodes(F) \subseteq Nodes(M) /\ Nodes(M) \subseteq Nodes(F) \cup p
        /\ l \in Nodes(M) /\ Leaves(M) \subseteq Leaves(F) \cup {l}
        /\ Deep(F, limit) /\ DeepTree(p, limit) => Deep(M, limit)
    BY <1>1, <1>3, PouchMerging
  <2> HIDE DEF M
  <2>3. Shown(M, D \cup {l})
    BY <1>1, <2>2, ArrivalShown
  <2>4. Stems(M, G) /\ (Deep(M, limit) => Deep(G, limit) /\ LeavesApart(G))
    BY <2>2, PouchStems
  <2>5. Shown(G, D \cup {l}) /\ Grove(G)
    BY <2>3, <2>4, StemShown
  <2>6. QED
    BY <2>1, <2>2, <2>4, <2>5
<1>4. QED
  BY <1>2, <1>3
-----------------------------------------------------------------------------
(* Complete histories.                                                     *)

\* Every tree starts with a first revision, and all of D is still there.
Whole(F) == \A t \in F : Parent[Root(t)] = NoRev

Held(F, D) == Whole(F) /\ D \subseteq Nodes(F)

NoneTooLong(limit) == \A r \in Rev : Pos(r) <= limit

LEMMA FirstAlone ==
    ASSUME NEW a \in Rev, Parent[a] = NoRev
    PROVE  Lineage[a] = {a}
BY LineageStep

LEMMA WholeTree ==
    ASSUME NEW t, Tree(t), Parent[Root(t)] = NoRev, NEW x \in t
    PROVE  Lineage[x] \subseteq t
<1> DEFINE a == Root(t)
<1>1. a \in Rev /\ x \in Rev /\ a \in Lineage[x] /\ Lineage[a] = {a}
  BY TreeType, FirstAlone
<1>2. ASSUME NEW y \in Lineage[x] PROVE y \in t
  <2>1. y \in Rev /\ (a \in Lineage[y] \/ y \in Lineage[a])
    BY <1>1, LineageChain, LineageType
  <2>2. a \in Lineage[y]
    BY <1>1, <2>1
  <2>3. QED
    BY <2>2, TreeHolds
<1>3. QED
  BY <1>2

LEMMA FullDocument ==
    ASSUME NEW doc, IsDocument(doc), IsFull(doc)
    PROVE  Parent[Root(doc.ids)] = NoRev
<1> DEFINE p == doc.ids
           a == Root(p)
<1>1. doc.rev \in Rev /\ p = Lineage[doc.rev] /\ Tree(p)
  BY DocumentIsPath, PathIs DEF IsFull
<1>2. a \in Rev /\ a \in p
  BY <1>1, TreeType
<1>3. SUFFICES ASSUME Parent[a] # NoRev PROVE FALSE
  OBVIOUS
<1>4. Parent[a] \in Rev /\ Parent[a] \in Lineage[a]
  BY <1>2, <1>3, ParentAbove
<1>5. Parent[a] \in p
  BY <1>1, <1>2, <1>4, LineageWithin
<1>6. a \in Lineage[Parent[a]]
  BY <1>1, <1>5, TreeType
<1>7. a = Parent[a]
  BY <1>2, <1>4, <1>6, LineageOrder
<1>8. QED
  BY <1>2, <1>7, RevType

\* What all of a tree is above.
LEMMA LeafBelow ==
    ASSUME NEW t, Tree(t), IsFiniteSet(t), NEW x \in t
    PROVE  \E l \in LeavesOf(t) : x \in Lineage[l]
<1> DEFINE T == {y \in t : x \in Lineage[y]}
           R == {z \in T \X T : z[1] < z[2]}
<1>1. t \subseteq Rev /\ x \in T /\ T \subseteq Nat
  BY TreeType, LineageType, RevType
<1>2. IsFiniteSet(T)
  <2>1. T \in SUBSET t
    OBVIOUS
  <2>2. QED
    BY <2>1, FS_Subset
<1>3. ASSUME NEW y \in T, NEW z \in T PROVE <<y, z>> \in R <=> y < z
  OBVIOUS
<1>4. Orders(T, R)
  <2>1. \A y, z \in T : y # z => y < z \/ z < y
    BY <1>1
  <2>2. \A u, y, z \in T : u < y /\ y < z => u < z
    BY <1>1
  <2> HIDE DEF T, R
  <2>3. QED
    BY <1>3, <2>1, <2>2 DEF Orders
<1>5. PICK l \in T : \A y \in T \ {l} : <<y, l>> \in R
  <2> HIDE DEF T, R
  <2>1. T \in SUBSET T /\ T # {}
    BY <1>1
  <2>2. QED
    BY <1>2, <1>4, <2>1, LastExists
<1>6. ASSUME NEW c \in t, Parent[c] = l PROVE FALSE
  <2>1. c \in Rev /\ l \in Rev /\ Parent[c] # NoRev /\ l < c /\ l \in Nat /\ c \in Nat
    BY <1>1, <1>6, RevType
  <2>2. Lineage[c] = {c} \cup Lineage[l]
    BY <1>6, <2>1, ParentAbove
  <2>3. c \in T /\ c # l
    BY <2>1, <2>2
  <2>4. c < l
    BY <1>5, <2>3
  <2>5. QED
    BY <2>1, <2>4
<1>7. QED
  BY <1>6 DEF LeavesOf

LEMMA PosPositive ==
    ASSUME NEW r \in Rev
    PROVE  Pos(r) \in Nat /\ Pos(r) > 0
<1>1. Lineage[r] # {} /\ IsFiniteSet(Lineage[r])
  BY LineageType
<1>2. Pos(r) # 0
  BY <1>1, FS_EmptySet DEF Pos
<1>3. QED
  BY <1>2, PosType

LEMMA NothingCut ==
    ASSUME NEW t, Tree(t), IsFiniteSet(t), NEW limit \in Nat \ {0}, NoneTooLong(limit)
    PROVE  UNION Branches(t, limit) = t
<1>1. UNION Branches(t, limit) \subseteq t
  BY BranchesAre
<1>2. ASSUME NEW x \in t PROVE x \in UNION Branches(t, limit)
  <2>1. PICK l \in LeavesOf(t) : x \in Lineage[l]
    BY LeafBelow
  <2>2. l \in Rev /\ x \in Rev
    BY TreeType DEF LeavesOf
  <2>3. Pos(x) > Pos(l) - limit
    <3>1. Pos(x) \in Nat /\ Pos(x) > 0 /\ Pos(l) \in Nat /\ Pos(l) <= limit
      BY <2>2, PosPositive DEF NoneTooLong
    <3>2. QED
      BY <3>1
  <2>4. x \in Branch(t, l, limit)
    BY <2>1, <2>3 DEF Branch
  <2>5. QED
    BY <2>4 DEF Branches
<1>3. QED
  BY <1>1, <1>2

LEMMA ComponentsOfTree ==
    ASSUME NEW t, Tree(t)
    PROVE  Components(t) = {t}
<1> DEFINE a == Root(t)
<1>1. t \subseteq Rev /\ a \in t
  BY TreeType
<1>2. ASSUME NEW r \in t, r # a PROVE Parent[r] \in t
  BY <1>2, ParentInTree
<1>3. \A r \in t : TopIn(t, r) = a
  BY <1>1, <1>2, TopExists DEF IsTop
<1>4. {r \in t : Parent[r] \notin t} = {a}
  <2>1. PICK z \in t : z = TopIn(t, a)
    BY <1>1, <1>3
  <2>2. Parent[a] \notin t
    BY <1>1, <1>3, TopExists DEF IsTop
  <2>3. QED
    BY <1>1, <1>2, <2>2
<1>5. Components(t) = {{r \in t : TopIn(t, r) = x} : x \in {r \in t : Parent[r] \notin t}}
  BY DEF Components, TopIn
<1>6. {r \in t : TopIn(t, r) = a} = t
  BY <1>3
<1>7. QED
  BY <1>4, <1>5, <1>6

\* Complete histories share nothing but all of their beginning.
LEMMA WholeApart ==
    ASSUME NEW F, Grove(F), Whole(F)
    PROVE  ~ Overlapping(F)
<1>1. ASSUME NEW t \in F, NEW u \in F, NEW z \in t, z \in u PROVE t = u
  <2>1. Tree(t) /\ Tree(u) /\ Parent[Root(t)] = NoRev /\ Parent[Root(u)] = NoRev
    BY DEF Grove, Whole
  <2>2. /\ Root(t) \in Rev /\ Lineage[Root(t)] = {Root(t)}
        /\ Root(u) \in Rev /\ Lineage[Root(u)] = {Root(u)}
    BY <2>1, RootType, FirstAlone
  <2>3. Root(t) = Root(u)
    BY <1>1, <2>1, <2>2, TreesMeet
  <2>4. QED
    BY <2>3 DEF Grove
<1>2. QED
  BY <1>1 DEF Overlapping

LEMMA StemsNothing ==
    ASSUME NEW F, Grove(F), Whole(F), NEW limit \in Nat \ {0}, NoneTooLong(limit)
    PROVE  CouchStem(F, limit) = F
<1> DEFINE left(t) == Components(UNION Branches(t, limit))
<1>1. ASSUME NEW t \in F PROVE left(t) = {t}
  <2>1. Tree(t) /\ IsFiniteSet(t)
    BY GroveFinite DEF Grove
  <2>2. QED
    BY <2>1, NothingCut, ComponentsOfTree
<1>2. CouchStem(F, limit) = UNION {left(t) : t \in F}
  BY WholeApart DEF CouchStem
<1> HIDE DEF left
<1>3. UNION {left(t) : t \in F} = F
  BY <1>1
<1>4. QED
  BY <1>2, <1>3

LEMMA PouchHeld ==
    ASSUME NEW M, Woods(M), Whole(M), NEW limit \in Nat \ {0}, NoneTooLong(limit)
    PROVE  Whole(PouchStem(M, limit)) /\ Nodes(M) \subseteq Nodes(PouchStem(M, limit))
<1> DEFINE U == UNION {Branches(t, limit) : t \in M}
           with(r) == UNION {b \in U : Root(b) = r}
           roots == {Root(b) : b \in U}
<1>1. PouchStem(M, limit) = {with(r) : r \in roots}
  BY DEF PouchStem
<1>2. ASSUME NEW t \in M PROVE Tree(t) /\ IsFiniteSet(t) /\ Parent[Root(t)] = NoRev
  BY GroveFinite DEF Woods, Whole
<1>3. ASSUME NEW b \in U
      PROVE  /\ Parent[Root(b)] = NoRev
             /\ b \subseteq Rev /\ Root(b) \in b
             /\ \A z \in b : Root(b) \in Lineage[z] /\ Segment(Root(b), z) \subseteq b
  <2>1. PICK t \in M : b \in Branches(t, limit)
    OBVIOUS
  <2>2. PICK l \in LeavesOf(t) : b = Branch(t, l, limit)
    BY <2>1 DEF Branches
  <2>3. l \in t /\ l \in Rev /\ Root(t) \in Rev /\ Root(t) \in Lineage[l] /\ Root(t) \in t
    BY <1>2, TreeType DEF LeavesOf
  <2>4. Tree(b) /\ b \subseteq t
    BY <1>2, <2>2, <2>3, BranchIsPath, PathIs
  <2>5. Root(t) \in b
    <3>1. Pos(Root(t)) \in Nat /\ Pos(Root(t)) > 0 /\ Pos(l) \in Nat /\ Pos(l) <= limit
      BY <2>3, PosPositive DEF NoneTooLong
    <3>2. Pos(Root(t)) > Pos(l) - limit
      BY <3>1
    <3>3. QED
      BY <2>2, <2>3, <3>2 DEF Branch
  <2>6. Root(b) \in Lineage[Root(t)] /\ Lineage[Root(t)] = {Root(t)}
    BY <1>2, <2>3, <2>4, <2>5, TreeType, FirstAlone
  <2>7. QED
    BY <1>2, <2>4, <2>6, TreeType
<1>4. ASSUME NEW t \in M, NEW x \in t PROVE \E b \in U : x \in b
  <2>1. UNION Branches(t, limit) = t
    BY <1>2, NothingCut
  <2>2. QED
    BY <2>1
<1> HIDE DEF U
<1>5. ASSUME NEW r \in roots PROVE Parent[Root(with(r))] = NoRev
  <2>1. PICK b \in U : r = Root(b)
    OBVIOUS
  <2>2. with(r) \subseteq Rev /\ r \in with(r)
    BY <1>3, <2>1
  <2>3. \A z \in with(r) : r \in Lineage[z] /\ Segment(r, z) \subseteq with(r)
    BY <1>3
  <2> HIDE DEF with
  <2>4. RootedAt(with(r), r)
    BY <2>2, <2>3 DEF RootedAt
  <2>5. QED
    BY <1>3, <2>1, <2>4, RootIs
<1>6. ASSUME NEW b \in U PROVE b \subseteq with(Root(b)) /\ Root(b) \in roots
  OBVIOUS
<1> HIDE DEF with, roots
<1>7. QED
  BY <1>1, <1>4, <1>5, <1>6 DEF Whole, Nodes

\* With all of their histories in the trees, the leaves are the heads.
LEMMA HeldExact ==
    ASSUME NEW F, Grove(F), NEW D, Held(F, D), Shown(F, D)
    PROVE  Leaves(F) \subseteq HeadsOf(D)
<1>1. ASSUME NEW t \in F, NEW r \in LeavesOf(t), NEW s \in D, s # r, r \in Lineage[s]
      PROVE  FALSE
  <2>1. s \in Rev /\ r \in t
    BY DEF Shown, LeavesOf
  <2>2. PICK u \in F : s \in u
    BY DEF Held, Nodes
  <2>3. Tree(u) /\ Parent[Root(u)] = NoRev
    BY DEF Grove, Held, Whole
  <2>4. Lineage[s] \subseteq u
    BY <2>2, <2>3, WholeTree
  <2>5. t = u
    <3>1. ~ Overlapping(F)
      BY WholeApart DEF Held
    <3>2. r \in t \cap u
      BY <1>1, <2>1, <2>4
    <3>3. QED
      BY <3>1, <3>2 DEF Overlapping
  <2>6. PICK c \in Lineage[s] : Parent[c] = r
    BY <1>1, <2>1, NextBelow
  <2>7. QED
    BY <2>4, <2>5, <2>6 DEF LeavesOf
<1>2. QED
  BY <1>1 DEF Leaves, HeadsOf, Shown

LEMMA MergeHeld ==
    ASSUME NEW F, Grove(F), NEW D, Held(F, D), NEW doc, IsDocument(doc), IsFull(doc)
    PROVE  Held(CouchMerge(F, doc.ids), D \cup {doc.rev})
<1> DEFINE p == doc.ids
           l == doc.rev
           M == CouchMerge(F, p)
<1>1. Path(p, l) /\ Parent[Root(p)] = NoRev /\ Tree(p) /\ l \in p
  BY DocumentIsPath, FullDocument, PathIs
<1>2. Nodes(M) = Nodes(F) \cup p
  BY <1>1, Merging
<1>3. ASSUME NEW t \in F, Meets(t, p) PROVE Parent[Root(t \cup p)] = NoRev
  <2>1. Tree(t) /\ Parent[Root(t)] = NoRev
    BY DEF Grove, Held, Whole
  <2>2. QED
    BY <1>1, <1>3, <2>1, MeetJoins
<1>4. M = F \cup {p} \/ \E t \in F : Meets(t, p) /\ M = (F \ {t}) \cup {t \cup p}
  BY MergeIs
<1> HIDE DEF M
<1>5. Whole(M)
  BY <1>1, <1>3, <1>4 DEF Held, Whole
<1>6. QED
  BY <1>1, <1>2, <1>5 DEF Held, M

LEMMA NoNewLeafHeld ==
    ASSUME NEW F, Grove(F), NEW D, Held(F, D), NEW doc, IsDocument(doc), IsFull(doc),
           NoNewLeaf(F, doc)
    PROVE  Held(F, D \cup {doc.rev})
<1> DEFINE p == doc.ids
           l == doc.rev
           M == CouchMerge(F, p)
<1>1. Path(p, l) /\ l \in p /\ l \in Rev /\ p = Lineage[l]
  BY DocumentIsPath, PathIs DEF IsFull
<1>2. Nodes(M) = Nodes(F) \cup p
  BY <1>1, Merging
<1>3. CASE l \in Leaves(F)
  BY <1>3 DEF Held, Leaves, LeavesOf, Nodes
<1>4. CASE l \notin Leaves(M)
  <2> HIDE DEF M
  <2>1. PICK m \in M : l \in m
    BY <1>1, <1>2 DEF Nodes
  <2>2. PICK x \in m : Parent[x] = l
    BY <1>4, <2>1 DEF Leaves, LeavesOf
  <2>3. x \in Nodes(F) \cup p
    BY <1>2, <2>2 DEF Nodes
  <2>4. x \notin p
    <3>1. SUFFICES ASSUME x \in p PROVE FALSE
      OBVIOUS
    <3>2. x \in Rev /\ x <= l /\ x \in Nat /\ l \in Nat /\ Parent[x] < x
      BY <1>1, <3>1, LineageType, RevType
    <3>3. QED
      BY <2>2, <3>2
  <2>5. PICK t \in F : x \in t
    BY <2>3, <2>4 DEF Nodes
  <2>6. Tree(t) /\ Parent[Root(t)] = NoRev /\ x \in Rev
    BY <2>5, TreeType DEF Grove, Held, Whole
  <2>7. l \in Lineage[x]
    BY <1>1, <2>2, <2>6, ParentAbove, RevType
  <2>8. l \in t
    BY <2>5, <2>6, <2>7, WholeTree
  <2>9. QED
    BY <2>8 DEF Held, Nodes
<1>5. CASE F = {}
  BY <1>5 DEF NoNewLeaf
<1>6. QED
  BY <1>3, <1>4 DEF NoNewLeaf

LEMMA UpdateHeld ==
    ASSUME NEW F, Grove(F), NEW D, Held(F, D), NEW doc, IsDocument(doc), IsFull(doc),
           NEW limit \in Nat \ {0}
    PROVE  /\ Held(CouchRawUpdate(F, doc), D \cup {doc.rev})
           /\ NoneTooLong(limit) =>
                 /\ Held(CouchUnvalidated(F, doc, limit), D \cup {doc.rev})
                 /\ Held(CouchUpdate(F, doc, limit), D \cup {doc.rev})
                 /\ Held(PouchUpdate(F, doc, limit), D \cup {doc.rev})
<1> DEFINE p == doc.ids
           l == doc.rev
           M == CouchMerge(F, p)
<1>1. Path(p, l) /\ Parent[Root(p)] = NoRev /\ Tree(p) /\ l \in p
  BY DocumentIsPath, FullDocument, PathIs
<1>2. Held(M, D \cup {l}) /\ Grove(M)
  BY <1>1, MergeHeld, Merging
<1>3. NoNewLeaf(F, doc) => Held(F, D \cup {l})
  BY NoNewLeafHeld
<1>4. NoneTooLong(limit) => CouchUnvalidated(F, doc, limit) = M
  BY <1>2, StemsNothing DEF CouchUnvalidated, Held
<1>5. ASSUME NoneTooLong(limit) PROVE Held(PouchUpdate(F, doc, limit), D \cup {l})
  <2>1. CASE l \in Nodes(F)
    BY <2>1 DEF PouchUpdate, Held
  <2>2. CASE l \notin Nodes(F)
    <3> DEFINE P == PouchMerge(F, p)
    <3>1. /\ Woods(P) /\ Nodes(F) \subseteq Nodes(P) /\ l \in Nodes(P)
          /\ \A m \in P : Root(m) \in {Root(t) : t \in F} \cup {Root(p)}
      BY <1>1, <2>2, PouchMerging
    <3> HIDE DEF P
    <3>2. Whole(P)
      BY <1>1, <3>1 DEF Held, Whole
    <3>3. Whole(PouchStem(P, limit)) /\ Nodes(P) \subseteq Nodes(PouchStem(P, limit))
      BY <1>5, <3>1, <3>2, PouchHeld
    <3>4. Held(PouchStem(P, limit), D \cup {l})
      BY <3>1, <3>3 DEF Held
    <3>5. QED
      BY <2>2, <3>4 DEF PouchUpdate, P
  <2>3. QED
    BY <2>1, <2>2
<1>6. QED
  BY <1>2, <1>3, <1>4, <1>5 DEF CouchUpdate, CouchRawUpdate
-----------------------------------------------------------------------------
(* The databases.                                                          *)

\* Each history sent to PouchDB goes back as far as PouchDB keeps it.
LongEnough ==
    server = "pouch" =>
        \A doc \in scenario.docs : Document(doc.rev, scenario.limit).ids \subseteq doc.ids

Kept == Full /\ (server = "couch, raw" \/ NoneTooLong(scenario.limit))

\* What every step preserves.
TypeOK ==
    /\ scenario \in Scenarios /\ server \in Servers
    /\ order \in Seq(scenario.docs)

ForestInv == Grove(forest) /\ Shown(forest, Delivered)

TreesInv ==
    /\ server \in {"couch", "couch, not validating"} => Disjoint(forest)
    /\ server = "couch, raw" => LeavesApart(forest)
    /\ server = "pouch" /\ LongEnough =>
          Deep(forest, scenario.limit) /\ LeavesApart(forest)

HeldInv == Kept => Held(forest, Delivered)

IInv == TypeOK /\ ForestInv /\ TreesInv /\ HeldInv

LEMMA DocumentTypes ==
    ASSUME TypeOK
    PROVE  /\ scenario.limit \in Nat \ {0}
           /\ \A doc \in scenario.docs : IsDocument(doc)
BY ScenarioAssumption DEF TypeOK

LEMMA InitInv == Init => IInv
<1> SUFFICES ASSUME Init PROVE IInv
  OBVIOUS
<1>1. forest = {} /\ Delivered = {} /\ order \in Seq(scenario.docs)
  BY DEF Init, Delivered
<1>2. Shown({}, {})
  BY EmptyGrove, GroveIsWoods DEF Shown, HeadsOf
<1>3. Disjoint({}) /\ LeavesApart({}) /\ \A n : Deep({}, n)
  BY DEF Disjoint, LeavesApart, Deep
<1>4. Held({}, {})
  BY DEF Held, Whole
<1>5. QED
  BY <1>1, <1>2, <1>3, <1>4, EmptyGrove
     DEF Init, IInv, TypeOK, ForestInv, TreesInv, HeldInv

\* An arrival delivers a revision, for the first time or again.
LEMMA Delivers ==
    ASSUME TypeOK, NEW doc \in scenario.docs, Arrives(doc)
    PROVE  TypeOK' /\ Delivered' = Delivered \cup {doc.rev}
<1> DEFINE n == Len(order)
<1>1. n \in Nat /\ DOMAIN order = 1 .. n
  BY DEF TypeOK
<1>2. scenario' = scenario /\ server' = server
  BY DEF Arrives
<1>3. CASE Contains(order, doc) /\ order' = order
  <2>1. PICK i \in 1 .. n : order[i] = doc
    BY <1>3 DEF Contains
  <2>2. doc.rev \in Delivered
    BY <1>1, <2>1 DEF Delivered
  <2>3. QED
    BY <1>2, <1>3, <2>2 DEF TypeOK, Delivered
<1>4. CASE order' = Append(order, doc)
  <2>1. /\ order' \in Seq(scenario.docs) /\ DOMAIN order' = 1 .. n + 1
        /\ \A i \in 1 .. n : order'[i] = order[i]
        /\ order'[n + 1] = doc
    BY <1>4 DEF TypeOK
  <2> HIDE DEF n
  <2>2. 1 .. n + 1 = (1 .. n) \cup {n + 1}
    BY <1>1
  <2>3. Delivered' = Delivered \cup {doc.rev}
    BY <1>1, <2>1, <2>2 DEF Delivered
  <2>4. QED
    BY <1>2, <2>1, <2>3 DEF TypeOK
<1>5. QED
  BY <1>3, <1>4 DEF Arrives

LEMMA NextInv == IInv /\ [Next]_vars => IInv'
<1> SUFFICES ASSUME IInv, [Next]_vars PROVE IInv'
  OBVIOUS
<1>1. CASE UNCHANGED vars
  BY <1>1 DEF vars, IInv, TypeOK, ForestInv, TreesInv, HeldInv, Kept, LongEnough, Full,
              Delivered
<1>2. ASSUME NEW doc \in scenario.docs, Arrives(doc) PROVE IInv'
  <2> DEFINE F == forest
             G == forest'
             D == Delivered
             limit == scenario.limit
  <2>1. limit \in Nat \ {0} /\ IsDocument(doc)
    BY DocumentTypes DEF IInv
  <2>2. TypeOK' /\ Delivered' = D \cup {doc.rev}
    BY <1>2, Delivers DEF IInv
  <2>3. scenario' = scenario /\ server' = server
    BY <1>2 DEF Arrives
  <2>4. Grove(F) /\ Shown(F, D)
    BY DEF IInv, ForestInv
  <2>5. \/ server = "couch" /\ G = CouchUpdate(F, doc, limit)
        \/ server = "couch, not validating" /\ G = CouchUnvalidated(F, doc, limit)
        \/ server = "couch, raw" /\ G = CouchRawUpdate(F, doc)
        \/ server = "pouch" /\ G = PouchUpdate(F, doc, limit)
    BY <1>2 DEF Arrives, Update, IInv, TypeOK, Servers
  <2> HIDE DEF F, G, D, limit
  <2>6. Grove(G) /\ Shown(G, D \cup {doc.rev})
    <3> DEFINE E == D \cup {doc.rev}
    <3>1. /\ Grove(CouchUnvalidated(F, doc, limit))
          /\ Shown(CouchUnvalidated(F, doc, limit), E)
          /\ Grove(CouchUpdate(F, doc, limit)) /\ Shown(CouchUpdate(F, doc, limit), E)
          /\ Grove(CouchRawUpdate(F, doc)) /\ Shown(CouchRawUpdate(F, doc), E)
      BY <2>1, <2>4, CouchShown
    <3>2. Grove(PouchUpdate(F, doc, limit)) /\ Shown(PouchUpdate(F, doc, limit), E)
      BY <2>1, <2>4, PouchShown
    <3> HIDE DEF E
    <3>3. Grove(G) /\ Shown(G, E)
      BY <2>5, <3>1, <3>2
    <3>4. QED
      BY <3>3 DEF E
  <2>7. ForestInv'
    BY <2>2, <2>6 DEF ForestInv, G
  <2>8. LongEnough' = LongEnough /\ Kept' = Kept
    BY <2>3 DEF LongEnough, Kept, Full
  <2>9. TreesInv'
    <3>1. ASSUME server \in {"couch", "couch, not validating"} PROVE Disjoint(G)
      <4>1. Disjoint(F)
        BY <3>1 DEF IInv, TreesInv, F
      <4>2. QED
        BY <2>1, <2>4, <2>5, <3>1, <4>1, CouchShown
    <3>2. ASSUME server = "couch, raw" PROVE LeavesApart(G)
      <4>1. LeavesApart(F)
        BY <3>2 DEF IInv, TreesInv, F
      <4>2. QED
        BY <2>1, <2>4, <2>5, <3>2, <4>1, RawLeavesApart
    <3>3. ASSUME server = "pouch", LongEnough PROVE Deep(G, limit) /\ LeavesApart(G)
      <4>1. Deep(F, limit) /\ LeavesApart(F)
        BY <3>3 DEF IInv, TreesInv, F, limit
      <4>2. DeepTree(doc.ids, limit)
        <5>1. Document(doc.rev, limit).ids \subseteq doc.ids
          BY <1>2, <3>3 DEF LongEnough, limit
        <5>2. LeavesOf(doc.ids) = {doc.rev}
          BY <2>1, DocumentIsPath, PathIs
        <5>3. QED
          BY <5>1, <5>2 DEF Document, DeepTree
      <4>3. QED
        BY <2>1, <2>4, <2>5, <3>3, <4>1, <4>2, PouchShown
    <3>4. QED
      BY <2>3, <2>8, <3>1, <3>2, <3>3 DEF TreesInv, G, limit
  <2>10. HeldInv'
    <3>1. SUFFICES ASSUME Kept PROVE Held(G, D \cup {doc.rev})
      BY <2>2, <2>8 DEF HeldInv, G
    <3>2. Held(F, D)
      BY <3>1 DEF IInv, HeldInv, F, D
    <3>3. IsFull(doc) /\ (server = "couch, raw" \/ NoneTooLong(limit))
      BY <1>2, <3>1 DEF Kept, Full, limit
    <3> DEFINE E == D \cup {doc.rev}
    <3>4. /\ Held(CouchRawUpdate(F, doc), E)
          /\ NoneTooLong(limit) =>
                /\ Held(CouchUnvalidated(F, doc, limit), E)
                /\ Held(CouchUpdate(F, doc, limit), E)
                /\ Held(PouchUpdate(F, doc, limit), E)
      BY <2>1, <2>4, <3>2, <3>3, UpdateHeld
    <3> HIDE DEF E
    <3>5. Held(G, E)
      BY <2>5, <3>3, <3>4
    <3>6. QED
      BY <3>5 DEF E
  <2>11. QED
    BY <2>2, <2>7, <2>9, <2>10 DEF IInv
<1>3. QED
  BY <1>1, <1>2 DEF Next

LEMMA CompactedIs ==
    ASSUME IInv
    PROVE  /\ Shown(Compacted, Delivered)
           /\ Leaves(Compacted) \subseteq Leaves(forest)
           /\ server = "couch, raw" => Disjoint(Compacted)
           /\ server # "couch, raw" => Compacted = forest
<1> DEFINE G == CouchStem(forest, scenario.limit)
<1>1. Grove(forest) /\ Shown(forest, Delivered)
  BY DEF IInv, ForestInv
<1>2. Stems(forest, G) /\ Disjoint(G)
  BY <1>1, DocumentTypes, CouchStems DEF IInv
<1>3. Shown(G, Delivered)
  BY <1>1, <1>2, StemShown
<1> HIDE DEF G
<1>4. Compacted = IF server = "couch, raw" THEN G ELSE forest
  BY DEF Compacted, G
<1>5. QED
  BY <1>1, <1>2, <1>3, <1>4 DEF Stems

LEMMA InvWrites == IInv => WritesSurvive
<1> SUFFICES ASSUME IInv PROVE WritesSurvive
  OBVIOUS
<1>1. Shown(forest, Delivered) /\ Shown(Compacted, Delivered)
  BY CompactedIs DEF IInv, ForestInv
<1>2. Heads = HeadsOf(Delivered)
  BY DEF Heads, HeadsOf
<1>3. QED
  BY <1>1, <1>2, ShownLeaves DEF WritesSurvive

LEMMA InvOneTree == IInv => (LongEnough => EachInOneTree)
<1> SUFFICES ASSUME IInv, LongEnough PROVE EachInOneTree
  OBVIOUS
<1>1. LeavesApart(forest)
  BY ApartLeaves DEF IInv, TypeOK, TreesInv, Servers
<1>2. LeavesApart(Compacted)
  BY <1>1, CompactedIs, ApartLeaves
<1>3. QED
  BY <1>1, <1>2 DEF EachInOneTree, LeavesApart

LEMMA InvExact == IInv => StemmedLateIsExact
<1> SUFFICES ASSUME IInv, Kept PROVE Leaves(Compacted) = Heads
  BY DEF StemmedLateIsExact, Kept, NoneTooLong
<1>1. Grove(forest) /\ Shown(forest, Delivered) /\ Held(forest, Delivered)
  BY DEF IInv, ForestInv, HeldInv
<1>2. Leaves(forest) \subseteq HeadsOf(Delivered)
  BY <1>1, HeldExact
<1>3. HeadsOf(Delivered) \subseteq Leaves(Compacted)
  BY CompactedIs, ShownLeaves
<1>4. QED
  BY <1>2, <1>3, CompactedIs DEF Heads, HeadsOf

LEMMA AlwaysInv == Spec => []IInv
<1>1. QED
  BY InitInv, NextInv, PTL DEF Spec

(***************************************************************************)
(* No write is lost: whichever of the four databases takes them in, in     *)
(* whatever order, however often and however much of their histories came  *)
(* along, the delivered revisions that nothing delivered descends from are *)
(* leaves, and all leaves were delivered, before a compaction and after it *)
(* (couch_model.py and pouch_model.py: merge, stem and the repair of       *)
(* overlapping trees).                                                     *)
(***************************************************************************)
THEOREM NoWriteLost == Spec => []WritesSurvive
BY AlwaysInv, InvWrites, PTL

(***************************************************************************)
(* And each of them is the leaf of one tree only, so that a reader is      *)
(* shown it once: always at CouchDB, and at PouchDB while no history       *)
(* arrives with less than PouchDB would itself keep of it.                 *)
(***************************************************************************)
THEOREM HeadsAreKept == Spec => [](LongEnough => HeadsSurvive)
<1>1. IInv => (LongEnough => HeadsSurvive)
  BY InvWrites, InvOneTree DEF HeadsSurvive
<1>2. QED
  BY <1>1, AlwaysInv, PTL

(***************************************************************************)
(* P3, claim 2, for all histories: what has been merged with its complete  *)
(* history and is stemmed once, or never reaches the limit, shows exactly  *)
(* the heads (compute.py).                                                 *)
(***************************************************************************)
THEOREM LateStemmingIsExact == Spec => []StemmedLateIsExact
BY AlwaysInv, InvExact, PTL
-----------------------------------------------------------------------------
(* What comes again.                                                       *)

\* CouchDB finds no revision in two trees once it has merged.
NothingToRepair ==
    server = "couch" =>
        \A doc \in scenario.docs : ~ Overlapping(CouchMerge(forest, doc.ids))

LEMMA LeafKept ==
    ASSUME NEW F, Grove(F), ~ Overlapping(F), NEW limit \in Nat \ {0},
           NEW l \in Leaves(F)
    PROVE  l \in Leaves(CouchStem(F, limit))
<1>1. PICK t \in F : l \in LeavesOf(t)
  BY DEF Leaves
<1> DEFINE rs == UNION Branches(t, limit)
<1>2. Tree(t) /\ t \subseteq Rev
  BY TreeType DEF Grove
<1>3. l \in rs /\ rs \subseteq t
  <2>1. PICK b \in Branches(t, limit) : Path(b, l)
    BY <1>1, <1>2, BranchesAre
  <2>2. l \in b
    BY <2>1 DEF Path
  <2>3. \A d \in Branches(t, limit) : d \subseteq t
    BY <1>2, BranchesAre
  <2>4. QED
    BY <2>2, <2>3
<1>4. CouchStem(F, limit) = UNION {Components(UNION Branches(u, limit)) : u \in F}
  BY DEF CouchStem
<1>5. Components(rs) \subseteq CouchStem(F, limit)
  BY <1>4
<1> HIDE DEF rs
<1>6. PICK c \in Components(rs) : l \in c /\ c \subseteq rs
  BY <1>2, <1>3, ComponentsAre DEF Nodes
<1>7. l \in LeavesOf(c)
  BY <1>1, <1>3, <1>6 DEF LeavesOf
<1>8. QED
  BY <1>5, <1>6, <1>7 DEF Leaves

LEMMA NewLeaf ==
    ASSUME NEW F, Grove(F), NEW doc, IsDocument(doc), ~ NoNewLeaf(F, doc)
    PROVE  doc.rev \in Leaves(CouchMerge(F, doc.ids)) /\ Grove(CouchMerge(F, doc.ids))
<1> DEFINE p == doc.ids
           M == CouchMerge(F, p)
<1>1. Path(p, doc.rev) /\ LeavesOf(p) = {doc.rev}
  BY DocumentIsPath, PathIs
<1>2. Grove(M)
  BY <1>1, Merging
<1>3. CASE F = {}
  <2>1. M = {p}
    BY <1>3, MergeIs
  <2>2. QED
    BY <1>1, <1>2, <2>1 DEF Leaves
<1>4. CASE F # {}
  BY <1>2, <1>4 DEF NoNewLeaf
<1>5. QED
  BY <1>3, <1>4

LEMMA CouchTwice ==
    ASSUME NEW F, Grove(F), NEW doc, IsDocument(doc), NEW limit \in Nat \ {0}
    PROVE  /\ CouchRawUpdate(CouchRawUpdate(F, doc), doc) = CouchRawUpdate(F, doc)
           /\ ~ Overlapping(CouchMerge(F, doc.ids)) =>
                 CouchUpdate(CouchUpdate(F, doc, limit), doc, limit)
                     = CouchUpdate(F, doc, limit)
<1> DEFINE M == CouchMerge(F, doc.ids)
           G == CouchStem(M, limit)
<1>1. ASSUME NEW H, doc.rev \in Leaves(H) PROVE NoNewLeaf(H, doc)
  BY <1>1, EmptyGrove DEF NoNewLeaf
<1>2. CASE NoNewLeaf(F, doc)
  BY <1>2 DEF CouchRawUpdate, CouchUpdate
<1>3. CASE ~ NoNewLeaf(F, doc)
  <2>1. doc.rev \in Leaves(M) /\ Grove(M)
    BY <1>3, NewLeaf
  <2>2. CouchRawUpdate(F, doc) = M /\ CouchUpdate(F, doc, limit) = G
    BY <1>3 DEF CouchRawUpdate, CouchUpdate, CouchUnvalidated
  <2>3. NoNewLeaf(M, doc)
    BY <1>1, <2>1
  <2>4. ~ Overlapping(M) => NoNewLeaf(G, doc)
    BY <1>1, <2>1, LeafKept
  <2> HIDE DEF M, G
  <2>5. CouchRawUpdate(M, doc) = M
    BY <2>3 DEF CouchRawUpdate
  <2>6. ~ Overlapping(M) => CouchUpdate(G, doc, limit) = G
    BY <2>4 DEF CouchUpdate
  <2>7. QED
    BY <2>2, <2>5, <2>6 DEF M
<1>4. QED
  BY <1>2, <1>3

LEMMA PouchTwice ==
    ASSUME NEW F, Grove(F), NEW doc, IsDocument(doc), NEW limit \in Nat \ {0}
    PROVE  PouchUpdate(PouchUpdate(F, doc, limit), doc, limit) = PouchUpdate(F, doc, limit)
<1> DEFINE M == PouchMerge(F, doc.ids)
           G == PouchStem(M, limit)
<1>1. CASE doc.rev \in Nodes(F)
  BY <1>1 DEF PouchUpdate
<1>2. CASE doc.rev \notin Nodes(F)
  <2>1. PouchUpdate(F, doc, limit) = G
    BY <1>2 DEF PouchUpdate
  <2>2. Woods(M) /\ doc.rev \in Leaves(M)
    BY <1>2, DocumentIsPath, PouchMerging
  <2> HIDE DEF M
  <2>3. doc.rev \in Nodes(G)
    BY <2>2, PouchStems DEF Stems
  <2> HIDE DEF G
  <2>4. PouchUpdate(G, doc, limit) = G
    BY <2>3 DEF PouchUpdate
  <2>5. QED
    BY <2>1, <2>4
<1>3. QED
  BY <1>1, <1>2

(***************************************************************************)
(* A document that comes twice in a row changes nothing the second time:   *)
(* at PouchDB and at a CouchDB that stems in compactions always, and at    *)
(* one that stems as it merges whenever the merge leaves no revision in    *)
(* two trees.  (CouchDB's repair may join what the next arrival takes      *)
(* apart again.)                                                           *)
(***************************************************************************)
THEOREM RepeatsAreIgnored == Spec /\ []NothingToRepair => RepeatChangesNothing
<1> DEFINE Once == server # "couch, not validating" =>
                     \A doc \in scenario.docs :
                        Arrives(doc) => Update(forest', doc) = forest'
<1>1. IInv /\ NothingToRepair => Once
  <2> SUFFICES ASSUME IInv, NothingToRepair, server # "couch, not validating",
                      NEW doc \in scenario.docs, Arrives(doc)
               PROVE  Update(forest', doc) = forest'
    OBVIOUS
  <2> DEFINE F == forest
             G == forest'
             limit == scenario.limit
  <2>1. limit \in Nat \ {0} /\ IsDocument(doc) /\ Grove(F)
    BY DocumentTypes DEF IInv, ForestInv
  <2>2. G = Update(F, doc)
    BY DEF Arrives
  <2>3. server = "couch" => ~ Overlapping(CouchMerge(F, doc.ids))
    BY DEF NothingToRepair
  <2>4. server \in {"couch", "couch, raw", "pouch"}
    BY DEF IInv, TypeOK, Servers
  <2>5. \A trees :
           /\ server = "couch" => Update(trees, doc) = CouchUpdate(trees, doc, limit)
           /\ server = "couch, raw" => Update(trees, doc) = CouchRawUpdate(trees, doc)
           /\ server = "pouch" => Update(trees, doc) = PouchUpdate(trees, doc, limit)
    BY DEF Update
  <2> HIDE DEF F, G, limit
  <2>6. /\ CouchRawUpdate(CouchRawUpdate(F, doc), doc) = CouchRawUpdate(F, doc)
        /\ server = "couch" => CouchUpdate(CouchUpdate(F, doc, limit), doc, limit)
                                   = CouchUpdate(F, doc, limit)
        /\ PouchUpdate(PouchUpdate(F, doc, limit), doc, limit) = PouchUpdate(F, doc, limit)
    BY <2>1, <2>3, CouchTwice, PouchTwice
  <2>7. Update(G, doc) = G
    BY <2>2, <2>4, <2>5, <2>6
  <2>8. QED
    BY <2>7 DEF G
<1> HIDE DEF Once
<1>2. Spec /\ []NothingToRepair => [][Once]_vars
  BY <1>1, AlwaysInv, PTL
<1>3. QED
  BY <1>2 DEF RepeatChangesNothing, Once
===============================================================================
