----------------------------- MODULE ISGRProofs -----------------------------
(***************************************************************************)
(* Proofs about ISGR, for every set of gateways, every topology, every     *)
(* clock skew, every program of local events and any number of revisions   *)
(* in flight.                                                              *)
(***************************************************************************)
EXTENDS ISGR, TLAPS

-----------------------------------------------------------------------------
(* The vectors: what each operator leaves a copy knowing.                  *)

\* AddVersion stamps one version and keeps everything else that was known.
LEMMA AddVersionKnows ==
    ASSUME NEW h \in HLVs, NEW s \in Source, NEW v \in Nat
    PROVE  /\ AddVersion(h, s, v) \in HLVs
           /\ \A x \in Source : Value(AddVersion(h, s, v), x) =
                                    IF x = s THEN v ELSE Value(h, x)
           /\ h.pv[h.src] = 0 =>
                AddVersion(h, s, v).pv[AddVersion(h, s, v).src] = 0
BY SMT DEF AddVersion, HLVs, Vector, Value

\* AddToPV raises the entries of the sources that are not current.
LEMMA AddToPVEntries ==
    ASSUME NEW h \in HLVs, NEW seen \in Vector
    PROVE  LET k == AddToPV(h, seen) IN
           /\ k \in HLVs /\ k.src = h.src /\ k.ver = h.ver
           /\ \A x \in Source : k.pv[x] = IF x = h.src THEN h.pv[x]
                                          ELSE Larger(h.pv[x], seen[x])
<1> DEFINE pv == [s \in Source |-> IF s = h.src THEN h.pv[s]
                                   ELSE Larger(h.pv[s], seen[s])]
<1>1. pv \in Vector
  BY SMT DEF HLVs, Vector, Larger
<1>2. AddToPV(h, seen) = [h EXCEPT !.pv = pv]
  BY DEF AddToPV
<1>3. \A x \in Source : pv[x] = IF x = h.src THEN h.pv[x]
                                ELSE Larger(h.pv[x], seen[x])
  OBVIOUS
<1> HIDE DEF pv
<1> QED
  BY <1>1, <1>2, <1>3, SMT DEF HLVs

\* UpdateHistory keeps the current version and takes, for every other
\* source, the newest version that either vector has seen.
LEMMA UpdateHistoryKnows ==
    ASSUME NEW h \in HLVs, NEW g \in HLVs,
           h.pv[h.src] = 0, g.pv[g.src] = 0
    PROVE  /\ UpdateHistory(h, g) \in HLVs
           /\ SameCV(UpdateHistory(h, g), h)
           /\ UpdateHistory(h, g).pv[h.src] = 0
           /\ \A x \in Source : Value(UpdateHistory(h, g), x) =
                  IF x = h.src THEN h.ver ELSE Larger(Value(h, x), Value(g, x))
<1> DEFINE seen == [s \in Source |-> IF s = g.src THEN g.ver ELSE 0]
           once == AddToPV(h, seen)
           twice == AddToPV(once, g.pv)
<1>1. seen \in Vector /\ g.pv \in Vector
  BY SMT DEF HLVs, Vector
<1>2. \A x \in Source : seen[x] = IF x = g.src THEN g.ver ELSE 0
  OBVIOUS
<1> HIDE DEF seen
<1>3. /\ once \in HLVs /\ once.src = h.src /\ once.ver = h.ver
      /\ \A x \in Source : once.pv[x] = IF x = h.src THEN h.pv[x]
                                         ELSE Larger(h.pv[x], seen[x])
  BY <1>1, AddToPVEntries
<1> HIDE DEF once
<1>4. /\ twice \in HLVs /\ twice.src = h.src /\ twice.ver = h.ver
      /\ \A x \in Source : twice.pv[x] = IF x = h.src THEN once.pv[x]
                                          ELSE Larger(once.pv[x], g.pv[x])
  BY <1>1, <1>3, AddToPVEntries
<1>5. UpdateHistory(h, g) = twice
  BY DEF UpdateHistory, once, seen
<1> HIDE DEF twice
<1>6. ASSUME NEW x \in Source
      PROVE  Value(twice, x) = IF x = h.src THEN h.ver
                               ELSE Larger(Value(h, x), Value(g, x))
  <2>1. h.pv[x] \in Nat /\ g.pv[x] \in Nat /\ h.ver \in Nat /\ g.ver \in Nat
    BY SMT DEF HLVs, Vector
  <2> QED
    BY <1>2, <1>3, <1>4, <2>1, SMT DEF Value, Larger
<1>7. h.src \in Source
  BY DEF HLVs
<1> QED
  BY <1>3, <1>4, <1>5, <1>6, <1>7 DEF SameCV

-----------------------------------------------------------------------------
(* The outcomes of a merge.                                                *)

\* Whatever a gateway installs is a document whose current version and body
\* are those of one of the two merged, and which knows nothing that neither
\* of them knew.
LEMMA MergedDoc ==
    ASSUME NEW x \in Doc, NEW y \in Doc,
           x.hlv.pv[x.hlv.src] = 0, y.hlv.pv[y.hlv.src] = 0
    PROVE  LET z == KeepIncoming(x, y) IN
           /\ z \in Doc
           /\ z.hlv.pv[z.hlv.src] = 0
           /\ SameCV(z.hlv, y.hlv) /\ z.body = y.body
           /\ \A s \in Source : Value(z.hlv, s) =
                 IF s = y.hlv.src THEN y.hlv.ver
                 ELSE Larger(Value(y.hlv, s), Value(x.hlv, s))
<1> DEFINE z == KeepIncoming(x, y)
<1>1. x.hlv \in HLVs /\ y.hlv \in HLVs
  BY DEF Doc
<1>2. z = [y EXCEPT !.hlv = UpdateHistory(y.hlv, x.hlv)]
  BY DEF KeepIncoming, UpdateWithIncoming
<1>3. z.hlv = UpdateHistory(y.hlv, x.hlv) /\ z.body = y.body
  BY <1>2, SMT DEF Doc
<1> HIDE DEF z
<1>4. z.hlv \in HLVs
  BY <1>1, <1>3, UpdateHistoryKnows
<1>5. z \in Doc
  BY <1>2, <1>3, <1>4, SMT DEF Doc
<1>6. z.hlv.src = y.hlv.src
  BY <1>1, <1>3, UpdateHistoryKnows DEF SameCV
<1> QED
  BY <1>1, <1>3, <1>5, <1>6, UpdateHistoryKnows DEF z

\* A conflict won locally leaves what one won remotely leaves, with the two
\* sides exchanged.
LEMMA KeepLocalIsKeepIncoming ==
    \A x, y : KeepLocal(x, y) = KeepIncoming(y, x)
BY DEF KeepLocal, KeepIncoming

-----------------------------------------------------------------------------
(* Types.                                                                  *)

\* The value of any copy's vector at any source is a natural number.
LEMMA ValueType ==
    ASSUME NEW h \in HLVs, NEW s \in Source
    PROVE  Value(h, s) \in Nat
BY SMT DEF HLVs, Vector, Value

\* A local write stamps a natural number above the gateway's last one.
LEMMA NextVersionType ==
    ASSUME TypeOK, NEW g \in Gateway
    PROVE  NextVersion(g) \in Nat /\ NextVersion(g) > Value(docs[g].hlv, g)
<1>1. docs[g].hlv \in HLVs /\ g \in Source
  BY DEF TypeOK, Doc, Gateway
<1>2. Value(docs[g].hlv, g) \in Nat
  BY <1>1, ValueType
<1>3. clock \in Nat /\ Skew[g] \in Int
  BY SkewType DEF TypeOK, Gateway
<1> QED
  BY <1>2, <1>3, SMT DEF NextVersion, Larger, TickLength

\* What a local write leaves: a document of the gateway's own, which knows
\* exactly one version more.
LEMMA LocalWriteDoc ==
    ASSUME TypeOK, NEW g \in Gateway, NEW event \in Program[g][pcs[g] + 1],
           pcs[g] < Len(Program[g]),
           NEW new, new = [hlv  |-> AddVersion(docs[g].hlv, g, NextVersion(g)),
                           body |-> event]
    PROVE  /\ new \in Doc
           /\ new.hlv.src = g /\ new.hlv.ver = NextVersion(g)
           /\ \A x \in Source : Value(new.hlv, x) =
                 IF x = g THEN NextVersion(g) ELSE Value(docs[g].hlv, x)
           /\ docs[g].hlv.pv[docs[g].hlv.src] = 0 =>
                 new.hlv.pv[new.hlv.src] = 0
<1>1. docs[g].hlv \in HLVs /\ g \in Source
  BY DEF TypeOK, Doc, Gateway
<1>2. NextVersion(g) \in Nat
  BY NextVersionType
<1>3. Program[g] \in Seq(SUBSET Body) /\ pcs[g] \in Nat
  BY ProgramType DEF TypeOK, Gateway
<1>4. event \in Body
  BY <1>3, SMT
<1>5. new.hlv = AddVersion(docs[g].hlv, g, NextVersion(g)) /\ new.body = event
  OBVIOUS
<1>6. new.hlv.src = g /\ new.hlv.ver = NextVersion(g)
  BY <1>1, <1>5, SMT DEF AddVersion, HLVs
<1>7. new \in Doc
  BY <1>1, <1>2, <1>4, <1>5, AddVersionKnows DEF Doc
<1> QED
  BY <1>1, <1>2, <1>5, <1>6, <1>7, AddVersionKnows

-----------------------------------------------------------------------------
(* The version invariant.                                                  *)

\* Every copy is a document.
LEMMA CopiesAreDocs ==
    ASSUME TypeOK
    PROVE  /\ \A x \in Copies : x \in Doc
           /\ \A g \in Gateway : docs[g] \in Copies
           /\ \A d \in Direction : \A r \in inflight[d] :
                 r \in Rev /\ r.doc \in Copies
<1>1. \A g \in Gateway : docs[g] \in Doc
  BY DEF TypeOK
<1>2. \A d \in Direction : \A r \in inflight[d] : r \in Rev /\ r.doc \in Doc
  BY DEF TypeOK, Rev
<1>3. ASSUME NEW d \in Direction, NEW r \in inflight[d]
      PROVE  r.doc \in Copies
  <2>1. r.doc \in {q.doc : q \in inflight[d]}
    OBVIOUS
  <2>2. {q.doc : q \in inflight[d]} \in {{q.doc : q \in inflight[e]} : e \in Direction}
    OBVIOUS
  <2> QED
    BY <2>1, <2>2 DEF Copies
<1>4. \A g \in Gateway : docs[g] \in Copies
  BY Zenon DEF Copies
<1>5. \A x \in Copies : \/ \E g \in Gateway : x = docs[g]
                        \/ \E d \in Direction : \E r \in inflight[d] : x = r.doc
  BY Zenon DEF Copies
<1> QED
  BY <1>1, <1>2, <1>3, <1>4, <1>5

\* No source knows less of itself after the step.
OwnVersionsKept ==
    \A s \in Source : Value(docs[s].hlv, s) <= Value(docs'[s].hlv, s)

\* A step that adds at most one copy keeps the invariant when no source's
\* knowledge of itself shrinks and the new copy fits what is there.
LEMMA OneMoreCopy ==
    ASSUME TypeOK, VersionInv, TypeOK', NEW new \in Doc,
           \A x \in Copies' : x \in Copies \/ x = new,
           \A s \in Source : Value(docs[s].hlv, s) <= Value(docs'[s].hlv, s),
           new.hlv.pv[new.hlv.src] = 0,
           \A s \in Source : Value(new.hlv, s) <= Value(docs'[s].hlv, s),
           \A x \in Copies : SameCV(x.hlv, new.hlv) => x.body = new.body
    PROVE  HistoryExcludesCurrent' /\ OwnVersionsAreNewest' /\ CVIdentifiesBody'
<1>1. HistoryExcludesCurrent'
  BY DEF VersionInv, HistoryExcludesCurrent
<1>2. OwnVersionsAreNewest'
  <2> SUFFICES ASSUME NEW x \in Copies', NEW s \in Source
               PROVE  Value(x.hlv, s) <= Value(docs'[s].hlv, s)
    BY DEF OwnVersionsAreNewest, Value
  <2>1. CASE x = new
    BY <2>1
  <2>2. CASE x \in Copies
    <3>1. x.hlv \in HLVs /\ docs[s].hlv \in HLVs /\ docs'[s].hlv \in HLVs
      BY <2>2, CopiesAreDocs DEF TypeOK, Doc, Gateway
    <3>2. /\ Value(x.hlv, s) \in Nat
          /\ Value(docs[s].hlv, s) \in Nat
          /\ Value(docs'[s].hlv, s) \in Nat
      BY <3>1, ValueType
    <3>3. Value(x.hlv, s) <= Value(docs[s].hlv, s)
      BY <2>2 DEF VersionInv, OwnVersionsAreNewest
    <3>4. Value(docs[s].hlv, s) <= Value(docs'[s].hlv, s)
      OBVIOUS
    <3> HIDE DEF Value
    <3> QED
      BY <3>2, <3>3, <3>4, SMT
  <2> QED
    BY <2>1, <2>2
<1>3. CVIdentifiesBody'
  <2> SUFFICES ASSUME NEW x \in Copies', NEW y \in Copies', SameCV(x.hlv, y.hlv)
               PROVE  x.body = y.body
    BY DEF CVIdentifiesBody, SameCV
  <2>1. SameCV(y.hlv, x.hlv)
    BY DEF SameCV
  <2> QED
    BY <2>1 DEF VersionInv, CVIdentifiesBody
<1> QED
  BY <1>1, <1>2, <1>3

\* A local write stamps a version that no copy has seen.
LEMMA LocalWriteKeeps ==
    ASSUME TypeOK, VersionInv, NEW g \in Gateway, LocalWrite(g)
    PROVE  TypeOK' /\ VersionInv' /\ OwnVersionsKept
<1>1. PICK event \in Program[g][pcs[g] + 1] :
         LET stamped == AddVersion(docs[g].hlv, g, NextVersion(g))
         IN  /\ docs'   = [docs EXCEPT ![g] = [hlv |-> stamped, body |-> event]]
             /\ writes' = [writes EXCEPT ![g] =
                              Append(@, [body |-> event, hlv |-> stamped])]
  BY DEF LocalWrite
<1> DEFINE new == [hlv  |-> AddVersion(docs[g].hlv, g, NextVersion(g)),
                   body |-> event]
<1>2. docs' = [docs EXCEPT ![g] = new]
  BY <1>1
<1>3. writes' = [writes EXCEPT ![g] = Append(@, new)]
  BY <1>1
<1>4. /\ new \in Doc
      /\ new.hlv.src = g /\ new.hlv.ver = NextVersion(g)
      /\ \A x \in Source : Value(new.hlv, x) =
            IF x = g THEN NextVersion(g) ELSE Value(docs[g].hlv, x)
      /\ docs[g].hlv.pv[docs[g].hlv.src] = 0 => new.hlv.pv[new.hlv.src] = 0
  BY LocalWriteDoc DEF LocalWrite
<1> HIDE DEF new
<1>5. /\ pcs[g] < Len(Program[g])
      /\ seqs'  = [seqs EXCEPT ![g] = @ + 1]
      /\ pcs'   = [pcs EXCEPT ![g] = @ + 1]
      /\ clock' = clock + 1
      /\ ckpt' = ckpt /\ inflight' = inflight
  BY DEF LocalWrite
<1>6. g \in Source /\ Gateway = Source
  BY DEF Gateway
<1>7. TypeOK'
  <2>1. docs' \in [Gateway -> Doc]
    BY <1>2, <1>4 DEF TypeOK
  <2>2. writes[g] \in Seq(Doc)
    BY DEF TypeOK
  <2>3. Append(writes[g], new) \in Seq(Doc)
    BY <2>2, <1>4, SMT
  <2>4. writes' \in [Gateway -> Seq(Doc)]
    BY <1>3, <2>3 DEF TypeOK
  <2>5. seqs' \in [Gateway -> Nat] /\ pcs' \in [Gateway -> Nat] /\ clock' \in Nat
    BY <1>5, SMT DEF TypeOK
  <2> QED
    BY <1>5, <2>1, <2>4, <2>5 DEF TypeOK
<1>8. docs'[g] = new /\ \A h \in Gateway : h # g => docs'[h] = docs[h]
  BY <1>2 DEF TypeOK
<1>9. docs[g] \in Copies /\ docs[g].hlv \in HLVs
  BY CopiesAreDocs DEF TypeOK, Doc
<1>10. NextVersion(g) \in Nat /\ NextVersion(g) > Value(docs[g].hlv, g)
  BY NextVersionType
<1>11. \A x \in Copies' : x \in Copies \/ x = new
  <2>1. \A x \in Copies' :
           \/ \E h \in Gateway : x = docs'[h]
           \/ \E d \in Direction : \E r \in inflight'[d] : x = r.doc
    BY Zenon DEF Copies
  <2> QED
    BY <1>5, <1>8, <2>1, CopiesAreDocs
<1>12. \A s \in Source : Value(docs[s].hlv, s) <= Value(docs'[s].hlv, s)
  <2> SUFFICES ASSUME NEW s \in Source
               PROVE  Value(docs[s].hlv, s) <= Value(docs'[s].hlv, s)
    OBVIOUS
  <2>1. docs[s].hlv \in HLVs
    BY <1>6 DEF TypeOK, Doc
  <2>2. Value(docs[s].hlv, s) \in Nat
    BY <2>1, ValueType
  <2>3. CASE s = g
    BY <1>4, <1>6, <1>8, <1>10, <2>2, <2>3, SMT
  <2>4. CASE s # g
    BY <1>6, <1>8, <2>2, <2>4, SMT
  <2> QED
    BY <2>3, <2>4
<1>13. \A s \in Source : Value(new.hlv, s) <= Value(docs'[s].hlv, s)
  <2> SUFFICES ASSUME NEW s \in Source
               PROVE  Value(new.hlv, s) <= Value(docs'[s].hlv, s)
    OBVIOUS
  <2>1. CASE s = g
    BY <1>4, <1>6, <1>8, <1>10, <2>1, SMT
  <2>2. CASE s # g
    <3>1. Value(new.hlv, s) = Value(docs[g].hlv, s)
      BY <1>4, <2>2
    <3>2. Value(docs[g].hlv, s) <= Value(docs[s].hlv, s)
      BY <1>9 DEF VersionInv, OwnVersionsAreNewest
    <3> QED
      BY <1>6, <1>8, <2>2, <3>1, <3>2
  <2> QED
    BY <2>1, <2>2
<1>14. \A x \in Copies : ~ SameCV(x.hlv, new.hlv)
  <2> SUFFICES ASSUME NEW x \in Copies, SameCV(x.hlv, new.hlv)
               PROVE  FALSE
    OBVIOUS
  <2>1. Value(x.hlv, g) = NextVersion(g)
    BY <1>4 DEF SameCV, Value
  <2>2. Value(x.hlv, g) <= Value(docs[g].hlv, g)
    BY <1>6 DEF VersionInv, OwnVersionsAreNewest
  <2>3. Value(docs[g].hlv, g) \in Nat
    BY <1>6, <1>9, ValueType
  <2> QED
    BY <1>10, <2>1, <2>2, <2>3, SMT
<1>15. new.hlv.pv[new.hlv.src] = 0
  BY <1>4, <1>9 DEF VersionInv, HistoryExcludesCurrent
<1>16. HistoryExcludesCurrent' /\ OwnVersionsAreNewest' /\ CVIdentifiesBody'
  BY <1>4, <1>7, <1>11, <1>12, <1>13, <1>14, <1>15, OneMoreCopy
<1>17. NothingReturns'
  BY <1>5 DEF VersionInv, NothingReturns
<1> QED
  BY <1>7, <1>12, <1>16, <1>17 DEF VersionInv, OwnVersionsKept

\* A step that installs nothing and puts at most a copy of the origin in
\* flight, one the receiver has not seen, keeps the invariant.
LEMMA NoInstallKeeps ==
    ASSUME TypeOK, VersionInv, NEW d \in Direction,
           UNCHANGED <<docs, seqs, pcs, clock, writes>>,
           ckpt' \in [Direction -> Nat],
           inflight' \in [Direction -> SUBSET Rev],
           \A e \in Direction : \A r \in inflight'[e] :
               r \in inflight[e] \/
               /\ e = d /\ r.doc = docs[d.from]
               /\ ~ KnownAtReceiver(d)
    PROVE  TypeOK' /\ VersionInv' /\ OwnVersionsKept
<1>1. TypeOK'
  BY DEF TypeOK
<1>2. d \in [from : Source, to : Source, resolver : BOOLEAN]
  BY DirectionType
<1>3. d.from \in Gateway /\ d.to \in Gateway
  BY <1>2, SMT DEF Gateway
<1>4. docs[d.from] \in Copies /\ docs[d.from] \in Doc /\ docs[d.from].hlv \in HLVs
  BY <1>3, CopiesAreDocs DEF TypeOK, Doc
<1>5. \A x \in Copies' : x \in Copies \/ x = docs[d.from]
  <2>1. \A x \in Copies' :
           \/ \E h \in Gateway : x = docs'[h]
           \/ \E e \in Direction : \E r \in inflight'[e] : x = r.doc
    BY Zenon DEF Copies
  <2> QED
    BY <2>1, CopiesAreDocs
<1>6. \A s \in Source : Value(docs[s].hlv, s) <= Value(docs'[s].hlv, s)
  <2> SUFFICES ASSUME NEW s \in Source
               PROVE  Value(docs[s].hlv, s) <= Value(docs'[s].hlv, s)
    OBVIOUS
  <2>1. docs[s].hlv \in HLVs
    BY DEF TypeOK, Doc, Gateway
  <2>2. Value(docs[s].hlv, s) \in Nat
    BY <2>1, ValueType
  <2> QED
    BY <2>2, SMT
<1>7. \A s \in Source : Value(docs[d.from].hlv, s) <= Value(docs'[s].hlv, s)
  BY <1>4 DEF VersionInv, OwnVersionsAreNewest
<1>8. HistoryExcludesCurrent' /\ OwnVersionsAreNewest' /\ CVIdentifiesBody'
  BY <1>1, <1>4, <1>5, <1>6, <1>7, OneMoreCopy
     DEF VersionInv, HistoryExcludesCurrent, CVIdentifiesBody
<1>9. NothingReturns'
  <2> SUFFICES ASSUME NEW e \in Direction, NEW r \in inflight'[e]
               PROVE  r.doc.hlv.src # e.to
    BY DEF NothingReturns
  <2>1. CASE r \in inflight[e]
    BY <2>1 DEF VersionInv, NothingReturns
  <2>2. CASE e = d /\ r.doc = docs[d.from] /\ ~ KnownAtReceiver(d)
    <3> SUFFICES ASSUME docs[d.from].hlv.src = d.to
                 PROVE  FALSE
      BY <2>2
    <3>1. Value(docs[d.from].hlv, d.to) = docs[d.from].hlv.ver
      BY DEF Value
    <3>2. Value(docs[d.from].hlv, d.to) <= Value(docs[d.to].hlv, d.to)
      BY <1>3, <1>4 DEF VersionInv, OwnVersionsAreNewest, Gateway
    <3>3. ~ (Value(docs[d.to].hlv, d.to) >= docs[d.from].hlv.ver)
      BY <2>2 DEF KnownAtReceiver, DominatesCV
    <3>4. docs[d.from].hlv.ver \in Nat /\ Value(docs[d.to].hlv, d.to) \in Nat
      <4>1. docs[d.to].hlv \in HLVs /\ d.to \in Source
        BY <1>3 DEF TypeOK, Doc, Gateway
      <4> QED
        BY <1>4, <4>1, ValueType DEF HLVs
    <3> QED
      BY <3>1, <3>2, <3>3, <3>4, SMT
  <2> QED
    BY <2>1, <2>2
<1> QED
  BY <1>1, <1>6, <1>8, <1>9 DEF VersionInv, OwnVersionsKept

\* Whatever a gateway installs out of a revision in flight keeps the
\* invariant: it carries the version and the body of one of the two merged,
\* and the gateway's knowledge of itself does not shrink.
LEMMA InstallKeeps ==
    ASSUME TypeOK, VersionInv, NEW d \in Direction, NEW r \in inflight[d],
           NEW new, \/ new = KeepIncoming(docs[d.to], r.doc)
                    \/ new = KeepLocal(docs[d.to], r.doc),
           Processed(d, r), Install(d.to, new)
    PROVE  TypeOK' /\ VersionInv' /\ OwnVersionsKept
<1> DEFINE local == docs[d.to]
<1>1. d \in [from : Source, to : Source, resolver : BOOLEAN]
  BY DirectionType
<1>2. d.to \in Gateway /\ d.to \in Source /\ Gateway = Source
  BY <1>1, SMT DEF Gateway
<1>3. r \in Rev /\ r.doc \in Copies /\ local \in Copies
  BY <1>2, CopiesAreDocs
<1>4. r.doc \in Doc /\ local \in Doc /\ r.doc.hlv \in HLVs /\ local.hlv \in HLVs
  BY <1>3, CopiesAreDocs DEF Doc
<1>5. r.doc.hlv.pv[r.doc.hlv.src] = 0 /\ local.hlv.pv[local.hlv.src] = 0
  BY <1>3 DEF VersionInv, HistoryExcludesCurrent
<1>6. r.doc.hlv.src # d.to
  BY DEF VersionInv, NothingReturns
<1>7. \A s \in Source : /\ Value(local.hlv, s) \in Nat
                        /\ Value(r.doc.hlv, s) \in Nat
                        /\ Value(docs[s].hlv, s) \in Nat
                        /\ docs[s].hlv \in HLVs
                        /\ Value(local.hlv, s) <= Value(docs[s].hlv, s)
                        /\ Value(r.doc.hlv, s) <= Value(docs[s].hlv, s)
  <2>1. \A s \in Source : docs[s].hlv \in HLVs
    BY DEF TypeOK, Doc, Gateway
  <2> QED
    BY <1>3, <1>4, <2>1, ValueType DEF VersionInv, OwnVersionsAreNewest
<1> HIDE DEF local
<1>8. /\ new \in Doc
      /\ new.hlv.pv[new.hlv.src] = 0
      /\ \A s \in Source : Value(new.hlv, s) <= Value(docs[s].hlv, s)
      /\ Value(new.hlv, d.to) >= Value(local.hlv, d.to)
      /\ \E x \in Copies : SameCV(new.hlv, x.hlv) /\ new.body = x.body
  <2>1. CASE new = KeepIncoming(local, r.doc)
    <3>1. /\ new \in Doc
          /\ new.hlv.pv[new.hlv.src] = 0
          /\ SameCV(new.hlv, r.doc.hlv) /\ new.body = r.doc.body
          /\ \A s \in Source : Value(new.hlv, s) =
                IF s = r.doc.hlv.src THEN r.doc.hlv.ver
                ELSE Larger(Value(r.doc.hlv, s), Value(local.hlv, s))
      BY <1>4, <1>5, <2>1, MergedDoc
    <3>2. \A s \in Source : s = r.doc.hlv.src => Value(r.doc.hlv, s) = r.doc.hlv.ver
      BY DEF Value
    <3>3. ASSUME NEW s \in Source
          PROVE  Value(new.hlv, s) <= Value(docs[s].hlv, s)
      <4>1. CASE s = r.doc.hlv.src
        BY <1>7, <3>1, <3>2, <4>1
      <4>2. CASE s # r.doc.hlv.src
        BY <1>7, <3>1, <4>2, SMT DEF Larger
      <4> QED
        BY <4>1, <4>2
    <3>4. Value(new.hlv, d.to) >= Value(local.hlv, d.to)
      BY <1>2, <1>6, <1>7, <3>1, SMT DEF Larger
    <3> QED
      BY <1>3, <3>1, <3>3, <3>4
  <2>2. CASE new = KeepIncoming(r.doc, local)
    <3>1. /\ new \in Doc
          /\ new.hlv.pv[new.hlv.src] = 0
          /\ SameCV(new.hlv, local.hlv) /\ new.body = local.body
          /\ \A s \in Source : Value(new.hlv, s) =
                IF s = local.hlv.src THEN local.hlv.ver
                ELSE Larger(Value(local.hlv, s), Value(r.doc.hlv, s))
      BY <1>4, <1>5, <2>2, MergedDoc
    <3>2. \A s \in Source : s = local.hlv.src => Value(local.hlv, s) = local.hlv.ver
      BY DEF Value
    <3>3. ASSUME NEW s \in Source
          PROVE  Value(new.hlv, s) <= Value(docs[s].hlv, s)
      <4>1. CASE s = local.hlv.src
        BY <1>7, <3>1, <3>2, <4>1
      <4>2. CASE s # local.hlv.src
        BY <1>7, <3>1, <4>2, SMT DEF Larger
      <4> QED
        BY <4>1, <4>2
    <3>4. Value(new.hlv, d.to) >= Value(local.hlv, d.to)
      BY <1>2, <1>7, <3>1, <3>2, SMT DEF Larger
    <3> QED
      BY <1>3, <3>1, <3>3, <3>4
  <2> QED
    BY <2>1, <2>2, KeepLocalIsKeepIncoming DEF local
<1>9. /\ docs' = [docs EXCEPT ![d.to] = new]
      /\ seqs' = [seqs EXCEPT ![d.to] = @ + 1]
      /\ inflight' = [inflight EXCEPT ![d] = @ \ {r}]
      /\ ckpt' = [ckpt EXCEPT ![d] = Larger(@, r.seq)]
      /\ pcs' = pcs /\ clock' = clock /\ writes' = writes
  BY DEF Processed, Install
<1>10. TypeOK'
  <2>1. docs' \in [Gateway -> Doc]
    BY <1>8, <1>9 DEF TypeOK
  <2>2. seqs' \in [Gateway -> Nat]
    BY <1>2, <1>9, SMT DEF TypeOK
  <2>3. inflight' \in [Direction -> SUBSET Rev]
    BY <1>9 DEF TypeOK
  <2>4. r.seq \in Nat
    BY <1>3 DEF Rev
  <2>5. ckpt' \in [Direction -> Nat]
    BY <1>9, <2>4, SMT DEF TypeOK, Larger
  <2> QED
    BY <1>9, <2>1, <2>2, <2>3, <2>5 DEF TypeOK
<1>11. docs'[d.to] = new /\ \A h \in Gateway : h # d.to => docs'[h] = docs[h]
  BY <1>2, <1>9 DEF TypeOK
<1>12. \A e \in Direction : \A q \in inflight'[e] : q \in inflight[e]
  BY <1>9 DEF TypeOK
<1>13. \A x \in Copies' : x \in Copies \/ x = new
  <2>1. \A x \in Copies' :
           \/ \E h \in Gateway : x = docs'[h]
           \/ \E e \in Direction : \E q \in inflight'[e] : x = q.doc
    BY Zenon DEF Copies
  <2> QED
    BY <1>11, <1>12, <2>1, CopiesAreDocs
<1>14. \A s \in Source : Value(docs[s].hlv, s) <= Value(docs'[s].hlv, s)
  <2> SUFFICES ASSUME NEW s \in Source
               PROVE  Value(docs[s].hlv, s) <= Value(docs'[s].hlv, s)
    OBVIOUS
  <2>0. Value(docs[s].hlv, s) \in Nat
    BY <1>7
  <2>1. CASE s = d.to
    <3>1. Value(new.hlv, d.to) \in Nat
      BY <1>2, <1>8, ValueType DEF Doc
    <3> QED
      BY <1>8, <1>11, <2>0, <2>1, <3>1, SMT DEF local
  <2>2. CASE s # d.to
    BY <1>2, <1>11, <2>0, <2>2, SMT
  <2> QED
    BY <2>1, <2>2
<1>15. \A s \in Source : Value(new.hlv, s) <= Value(docs'[s].hlv, s)
  <2> SUFFICES ASSUME NEW s \in Source
               PROVE  Value(new.hlv, s) <= Value(docs'[s].hlv, s)
    OBVIOUS
  <2>1. Value(new.hlv, s) \in Nat
    BY <1>8, ValueType DEF Doc
  <2>2. Value(new.hlv, s) <= Value(docs[s].hlv, s)
    BY <1>8
  <2>3. CASE s = d.to
    BY <1>11, <2>1, <2>3, SMT
  <2>4. CASE s # d.to
    BY <1>2, <1>11, <2>2, <2>4
  <2> QED
    BY <2>3, <2>4
<1>16. \A x \in Copies : SameCV(x.hlv, new.hlv) => x.body = new.body
  BY <1>8 DEF VersionInv, CVIdentifiesBody, SameCV
<1>17. HistoryExcludesCurrent' /\ OwnVersionsAreNewest' /\ CVIdentifiesBody'
  BY <1>8, <1>10, <1>13, <1>14, <1>15, <1>16, OneMoreCopy
<1>18. NothingReturns'
  BY <1>12 DEF VersionInv, NothingReturns
<1> QED
  BY <1>10, <1>14, <1>17, <1>18 DEF VersionInv, OwnVersionsKept

-----------------------------------------------------------------------------
(* The theorems.                                                           *)

\* The initial state, one revision in sync everywhere, has the types and the
\* invariant.
LEMMA InitHolds == Init => TypeOK /\ VersionInv
<1> SUFFICES ASSUME Init
             PROVE  TypeOK /\ VersionInv
  OBVIOUS
<1>1. InitialDoc \in Doc
  BY InitialType, SMT DEF InitialDoc, Doc, HLVs, Vector
<1>2. <<>> \in Seq(Doc)
  BY SMT
<1>3. TypeOK
  BY <1>1, <1>2, SMT DEF Init, TypeOK
<1>4. \A x \in Copies : x = InitialDoc
  <2>1. \A x \in Copies : \/ \E g \in Gateway : x = docs[g]
                          \/ \E d \in Direction : \E r \in inflight[d] : x = r.doc
    BY Zenon DEF Copies
  <2> QED
    BY <2>1 DEF Init
<1>5. HistoryExcludesCurrent
  BY <1>4, InitialType, SMT DEF HistoryExcludesCurrent, InitialDoc
<1>6. OwnVersionsAreNewest
  <2> SUFFICES ASSUME NEW x \in Copies, NEW s \in Source
               PROVE  Value(x.hlv, s) <= Value(docs[s].hlv, s)
    BY DEF OwnVersionsAreNewest
  <2>1. x = InitialDoc /\ docs[s] = InitialDoc
    BY <1>4 DEF Init, Gateway
  <2>2. Value(InitialDoc.hlv, s) \in Nat
    BY <1>1, ValueType DEF Doc
  <2> QED
    BY <2>1, <2>2, SMT
<1>7. CVIdentifiesBody
  BY <1>4 DEF CVIdentifiesBody
<1>8. NothingReturns
  BY DEF Init, NothingReturns
<1> QED
  BY <1>3, <1>5, <1>6, <1>7, <1>8 DEF VersionInv

\* Every step keeps the types and the invariant, and no source forgets a
\* version of its own.
LEMMA StepHolds ==
    TypeOK /\ VersionInv /\ [Next]_vars =>
        TypeOK' /\ VersionInv' /\ OwnVersionsKept
<1> SUFFICES ASSUME TypeOK, VersionInv, [Next]_vars
             PROVE  TypeOK' /\ VersionInv' /\ OwnVersionsKept
  OBVIOUS
<1>1. CASE UNCHANGED vars
  <2>1. Copies' = Copies
    BY <1>1 DEF vars, Copies
  <2>2. TypeOK' /\ VersionInv'
    BY <1>1, <2>1 DEF vars, TypeOK, VersionInv, HistoryExcludesCurrent,
       OwnVersionsAreNewest, NothingReturns, CVIdentifiesBody
  <2>3. ASSUME NEW s \in Source
        PROVE  Value(docs[s].hlv, s) <= Value(docs'[s].hlv, s)
    <3>1. docs[s].hlv \in HLVs /\ docs' = docs
      BY <1>1 DEF vars, TypeOK, Doc, Gateway
    <3>2. Value(docs[s].hlv, s) \in Nat
      BY <3>1, ValueType
    <3> QED
      BY <3>1, <3>2, SMT
  <2> QED
    BY <2>2, <2>3 DEF OwnVersionsKept
<1>2. CASE \E g \in Gateway : LocalWrite(g)
  BY <1>2, LocalWriteKeeps
<1>3. ASSUME NEW d \in Direction, Replicate(d)
      PROVE  TypeOK' /\ VersionInv' /\ OwnVersionsKept
  <2>1. d \in [from : Source, to : Source, resolver : BOOLEAN]
    BY DirectionType
  <2>2. d.from \in Gateway /\ d.to \in Gateway
    BY <2>1, SMT DEF Gateway
  <2>3. CASE Skip(d)
    <3>1. seqs[d.from] \in Nat /\ ckpt \in [Direction -> Nat]
      BY <2>2 DEF TypeOK
    <3>2. ckpt' \in [Direction -> Nat]
      BY <2>3, <3>1, SMT DEF Skip, Larger
    <3>3. inflight' = inflight /\ UNCHANGED <<docs, seqs, pcs, clock, writes>>
      BY <2>3 DEF Skip
    <3>4. inflight' \in [Direction -> SUBSET Rev]
      BY <3>3 DEF TypeOK
    <3> QED
      BY <3>2, <3>3, <3>4, NoInstallKeeps
  <2>4. CASE Send(d)
    <3> DEFINE q == [doc |-> docs[d.from], seq |-> seqs[d.from]]
    <3>1. q \in Rev /\ q.doc = docs[d.from]
      BY <2>2 DEF TypeOK, Rev
    <3>2. inflight' = [inflight EXCEPT ![d] = @ \cup {q}]
      BY <2>4 DEF Send
    <3> HIDE DEF q
    <3>3. inflight' \in [Direction -> SUBSET Rev]
      BY <3>1, <3>2 DEF TypeOK
    <3>4. \A e \in Direction : \A r \in inflight'[e] :
             r \in inflight[e] \/ (e = d /\ r = q)
      BY <3>2 DEF TypeOK
    <3>5. /\ ckpt' = ckpt /\ UNCHANGED <<docs, seqs, pcs, clock, writes>>
          /\ ~ KnownAtReceiver(d)
      BY <2>4 DEF Send
    <3>6. ckpt' \in [Direction -> Nat]
      BY <3>5 DEF TypeOK
    <3> QED
      BY <3>1, <3>3, <3>4, <3>5, <3>6, NoInstallKeeps
  <2>5. ASSUME NEW r \in inflight[d], Apply(d, r)
        PROVE  TypeOK' /\ VersionInv' /\ OwnVersionsKept
    <3>1. CASE Cancel(d, r) \/ Reject(d, r)
      <4>1. Processed(d, r) /\ UNCHANGED <<docs, seqs>>
        BY <3>1 DEF Cancel, Reject
      <4>2. /\ inflight' = [inflight EXCEPT ![d] = @ \ {r}]
            /\ ckpt' = [ckpt EXCEPT ![d] = Larger(@, r.seq)]
            /\ UNCHANGED <<docs, seqs, pcs, clock, writes>>
        BY <4>1 DEF Processed
      <4>3. r.seq \in Nat
        BY CopiesAreDocs DEF Rev
      <4>4. ckpt' \in [Direction -> Nat]
        BY <4>2, <4>3, SMT DEF TypeOK, Larger
      <4>5. /\ inflight' \in [Direction -> SUBSET Rev]
            /\ \A e \in Direction : \A q \in inflight'[e] : q \in inflight[e]
        BY <4>2 DEF TypeOK
      <4> QED
        BY <4>2, <4>4, <4>5, NoInstallKeeps
    <3>2. CASE \/ TombstoneOverTombstone(d, r)
               \/ FastForward(d, r)
               \/ ResolveRemoteWins(d, r)
      <4>1. Processed(d, r) /\ Install(d.to, KeepIncoming(docs[d.to], r.doc))
        BY <3>2 DEF TombstoneOverTombstone, FastForward, ResolveRemoteWins
      <4> QED
        BY <4>1, InstallKeeps
    <3>3. CASE ResolveLocalWins(d, r)
      <4>1. Processed(d, r) /\ Install(d.to, KeepLocal(docs[d.to], r.doc))
        BY <3>3 DEF ResolveLocalWins
      <4> QED
        BY <4>1, InstallKeeps
    <3> QED
      BY <2>5, <3>1, <3>2, <3>3 DEF Apply, Resolve
  <2> QED
    BY <1>3, <2>3, <2>4, <2>5 DEF Replicate
<1> QED
  BY <1>1, <1>2, <1>3 DEF Next

\* Every copy, revision, counter and checkpoint keeps its type.
THEOREM TypeCorrect == Spec => []TypeOK
<1>1. Spec => [](TypeOK /\ VersionInv)
  BY InitHolds, StepHolds, PTL DEF Spec
<1> QED
  BY <1>1, PTL

\* No copy, stored or in flight, has seen a version of a source that the
\* source's own copy has not; no revision travels back to its author; and
\* two copies with one current version carry one body.
THEOREM VersionsSound == Spec => []VersionInv
<1>1. Spec => [](TypeOK /\ VersionInv)
  BY InitHolds, StepHolds, PTL DEF Spec
<1> QED
  BY <1>1, PTL

\* No copy has seen a version of a source that the source's own copy has not.
COROLLARY OwnVersionsNewest == Spec => []OwnVersionsAreNewest
<1>1. VersionInv => OwnVersionsAreNewest
  BY DEF VersionInv
<1> QED
  BY <1>1, VersionsSound, PTL

\* No step takes back a version number that its source has used, whatever a
\* tombstone does to the rest of the vector.
THEOREM OwnVersionsGrow == Spec => OwnVersionsOnlyGrow
<1>1. TypeOK /\ TypeOK' /\ OwnVersionsKept =>
         [\A s \in Source :
             Value(docs'[s].hlv, s) >= Value(docs[s].hlv, s)]_vars
  <2> SUFFICES ASSUME TypeOK, TypeOK', OwnVersionsKept, NEW s \in Source
               PROVE  Value(docs'[s].hlv, s) >= Value(docs[s].hlv, s)
    OBVIOUS
  <2>1. docs[s].hlv \in HLVs /\ docs'[s].hlv \in HLVs
    BY DEF TypeOK, Doc, Gateway
  <2>2. Value(docs[s].hlv, s) \in Nat /\ Value(docs'[s].hlv, s) \in Nat
    BY <2>1, ValueType
  <2>3. Value(docs[s].hlv, s) <= Value(docs'[s].hlv, s)
    BY DEF OwnVersionsKept
  <2> QED
    BY <2>2, <2>3, SMT
<1>2. TypeOK /\ VersionInv /\ [Next]_vars =>
         [\A s \in Source :
             Value(docs'[s].hlv, s) >= Value(docs[s].hlv, s)]_vars
  BY <1>1, StepHolds
<1>3. Spec => [](TypeOK /\ VersionInv)
  BY InitHolds, StepHolds, PTL DEF Spec
<1>4. [](TypeOK /\ VersionInv) /\ [][Next]_vars => OwnVersionsOnlyGrow
  BY <1>2, PTL DEF OwnVersionsOnlyGrow
<1> QED
  BY <1>3, <1>4, PTL DEF Spec

-----------------------------------------------------------------------------
(* What a step does to the copies, in terms of what each copy knows.       *)

\* The ends of a replication are two gateways.
LEMMA DirectionEnds ==
    ASSUME NEW d \in Direction
    PROVE  /\ d.from \in Source /\ d.to \in Source /\ d.from # d.to
           /\ d.from \in Gateway /\ d.to \in Gateway
           /\ d.resolver \in BOOLEAN
<1>1. d \in [from : Source, to : Source, resolver : BOOLEAN]
  BY DirectionType
<1> QED
  BY <1>1, NoLoopback, SMT DEF Gateway

\* The numbers of a copy, and the value of its vector at its own source.
LEMMA CopyNumbers ==
    ASSUME TypeOK, VersionInv, NEW x \in Copies
    PROVE  /\ x \in Doc /\ x.hlv \in HLVs /\ x.hlv.src \in Source
           /\ x.hlv.ver \in Nat
           /\ \A s \in Source : Value(x.hlv, s) \in Nat
           /\ Value(x.hlv, x.hlv.src) = x.hlv.ver
           /\ x.hlv.pv[x.hlv.src] = 0
<1>1. x \in Doc /\ x.hlv \in HLVs
  BY CopiesAreDocs DEF Doc
<1>2. x.hlv.src \in Source /\ x.hlv.ver \in Nat
  BY <1>1 DEF HLVs
<1>3. Value(x.hlv, x.hlv.src) = x.hlv.ver
  BY DEF Value
<1> QED
  BY <1>1, <1>2, <1>3, ValueType DEF VersionInv, HistoryExcludesCurrent

\* A local write changes one copy, and of what that copy knows one entry: the
\* gateway's own, which becomes current with a number that no copy has seen.
LEMMA LocalWriteEffect ==
    ASSUME TypeOK, VersionInv, NEW g \in Gateway, LocalWrite(g)
    PROVE  \E event \in Program[g][pcs[g] + 1] : \E new \in Doc :
              /\ new.body = event /\ new.hlv.src = g
              /\ new.hlv.ver \in Nat
              /\ new.hlv.ver > Value(docs[g].hlv, g)
              /\ \A s \in Source : Value(new.hlv, s) =
                    IF s = g THEN new.hlv.ver ELSE Value(docs[g].hlv, s)
              /\ docs'[g] = new
              /\ \A h \in Gateway : h # g => docs'[h] = docs[h]
              /\ writes' = [writes EXCEPT ![g] = Append(@, new)]
              /\ seqs' = [seqs EXCEPT ![g] = @ + 1]
              /\ inflight' = inflight /\ ckpt' = ckpt
<1>1. PICK event \in Program[g][pcs[g] + 1] :
         LET stamped == AddVersion(docs[g].hlv, g, NextVersion(g))
         IN  /\ docs'   = [docs EXCEPT ![g] = [hlv |-> stamped, body |-> event]]
             /\ writes' = [writes EXCEPT ![g] =
                              Append(@, [body |-> event, hlv |-> stamped])]
  BY DEF LocalWrite
<1> DEFINE new == [hlv  |-> AddVersion(docs[g].hlv, g, NextVersion(g)),
                   body |-> event]
<1>2. docs' = [docs EXCEPT ![g] = new]
  BY <1>1
<1>3. writes' = [writes EXCEPT ![g] = Append(@, new)]
  BY <1>1
<1>4. new.body = event
  OBVIOUS
<1>5. /\ new \in Doc
      /\ new.hlv.src = g /\ new.hlv.ver = NextVersion(g)
      /\ \A x \in Source : Value(new.hlv, x) =
            IF x = g THEN NextVersion(g) ELSE Value(docs[g].hlv, x)
  BY LocalWriteDoc DEF LocalWrite
<1> HIDE DEF new
<1>6. NextVersion(g) \in Nat /\ NextVersion(g) > Value(docs[g].hlv, g)
  BY NextVersionType
<1>7. docs'[g] = new /\ \A h \in Gateway : h # g => docs'[h] = docs[h]
  BY <1>2 DEF TypeOK
<1> QED
  BY <1>3, <1>4, <1>5, <1>6, <1>7 DEF LocalWrite

\* The four ways to install something, with what each knew of the other side.
Takes(d, r, new) ==
    \/ /\ new = KeepIncoming(docs[d.to], r.doc)
       /\ \/ TakesTombstone(docs[d.to], r.doc)
          \/ TakesUpdate(docs[d.to], r.doc)
          \/ /\ Conflicts(docs[d.to], r.doc) /\ d.resolver
             /\ RemoteWins(docs[d.to], r.doc)
    \/ /\ new = KeepLocal(docs[d.to], r.doc)
       /\ Conflicts(docs[d.to], r.doc) /\ d.resolver
       /\ ~ RemoteWins(docs[d.to], r.doc)

Installs(d, r, new) ==
    Takes(d, r, new) /\ Processed(d, r) /\ Install(d.to, new)

\* What a step of the replications is, action by action.
LEMMA ReplicateCases ==
    ASSUME NEW d \in Direction, Replicate(d)
    PROVE  \/ Skip(d)
           \/ Send(d)
           \/ \E r \in inflight[d] : Cancel(d, r) \/ Reject(d, r)
           \/ \E r \in inflight[d] : \E new : Installs(d, r, new)
<1>1. CASE Skip(d) \/ Send(d)
  BY <1>1
<1>2. ASSUME NEW r \in inflight[d], Apply(d, r)
      PROVE  Cancel(d, r) \/ Reject(d, r) \/ \E new : Installs(d, r, new)
  <2>1. CASE Cancel(d, r) \/ Reject(d, r)
    BY <2>1
  <2>2. CASE TombstoneOverTombstone(d, r)
    BY <2>2 DEF TombstoneOverTombstone, Installs, Takes
  <2>3. CASE FastForward(d, r)
    BY <2>3 DEF FastForward, Installs, Takes
  <2>4. CASE ResolveRemoteWins(d, r)
    BY <2>4 DEF ResolveRemoteWins, Installs, Takes
  <2>5. CASE ResolveLocalWins(d, r)
    BY <2>5 DEF ResolveLocalWins, Installs, Takes
  <2> QED
    BY <1>2, <2>1, <2>2, <2>3, <2>4, <2>5 DEF Apply, Resolve
<1> QED
  BY <1>1, <1>2 DEF Replicate

\* A step that takes a revision off, and installs nothing.
LEMMA DropEffect ==
    ASSUME TypeOK, NEW d \in Direction, NEW r \in inflight[d],
           Cancel(d, r) \/ Reject(d, r)
    PROVE  /\ docs' = docs /\ seqs' = seqs /\ writes' = writes
           /\ inflight' = [inflight EXCEPT ![d] = @ \ {r}]
           /\ ckpt' = [ckpt EXCEPT ![d] = Larger(@, r.seq)]
           /\ \A e \in Direction : inflight'[e] \subseteq inflight[e]
<1>1. Processed(d, r) /\ UNCHANGED <<docs, seqs>>
  BY DEF Cancel, Reject
<1> QED
  BY <1>1 DEF Processed, TypeOK

\* A step that installs: the new copy has the current version and the body of
\* one of the two merged, and outside that version's source the newest that
\* either has seen.
LEMMA InstallEffect ==
    ASSUME TypeOK, VersionInv, NEW d \in Direction, NEW r \in inflight[d],
           NEW new, Installs(d, r, new)
    PROVE  /\ new \in Doc
           /\ docs'[d.to] = new
           /\ \A h \in Gateway : h # d.to => docs'[h] = docs[h]
           /\ seqs' = [seqs EXCEPT ![d.to] = @ + 1]
           /\ writes' = writes
           /\ inflight' = [inflight EXCEPT ![d] = @ \ {r}]
           /\ ckpt' = [ckpt EXCEPT ![d] = Larger(@, r.seq)]
           /\ \A e \in Direction : inflight'[e] \subseteq inflight[e]
           /\ \/ /\ new = KeepIncoming(docs[d.to], r.doc)
                 /\ SameCV(new.hlv, r.doc.hlv) /\ new.body = r.doc.body
                 /\ \A s \in Source : Value(new.hlv, s) =
                       IF s = r.doc.hlv.src THEN r.doc.hlv.ver
                       ELSE Larger(Value(r.doc.hlv, s), Value(docs[d.to].hlv, s))
                 /\ \/ TakesTombstone(docs[d.to], r.doc)
                    \/ TakesUpdate(docs[d.to], r.doc)
                    \/ /\ Conflicts(docs[d.to], r.doc) /\ d.resolver
                       /\ RemoteWins(docs[d.to], r.doc)
              \/ /\ new = KeepLocal(docs[d.to], r.doc)
                 /\ SameCV(new.hlv, docs[d.to].hlv)
                 /\ new.body = docs[d.to].body
                 /\ \A s \in Source : Value(new.hlv, s) =
                       IF s = docs[d.to].hlv.src THEN docs[d.to].hlv.ver
                       ELSE Larger(Value(docs[d.to].hlv, s), Value(r.doc.hlv, s))
                 /\ Conflicts(docs[d.to], r.doc) /\ d.resolver
                 /\ ~ RemoteWins(docs[d.to], r.doc)
<1>1. d.to \in Gateway
  BY DirectionEnds
<1>2. docs[d.to] \in Copies /\ r.doc \in Copies
  BY <1>1, CopiesAreDocs
<1>3. /\ docs[d.to] \in Doc /\ r.doc \in Doc
      /\ docs[d.to].hlv.pv[docs[d.to].hlv.src] = 0
      /\ r.doc.hlv.pv[r.doc.hlv.src] = 0
  BY <1>2, CopyNumbers
<1>4. KeepLocal(docs[d.to], r.doc) = KeepIncoming(r.doc, docs[d.to])
  BY KeepLocalIsKeepIncoming
<1>5. /\ docs' = [docs EXCEPT ![d.to] = new]
      /\ seqs' = [seqs EXCEPT ![d.to] = @ + 1]
      /\ writes' = writes
      /\ inflight' = [inflight EXCEPT ![d] = @ \ {r}]
      /\ ckpt' = [ckpt EXCEPT ![d] = Larger(@, r.seq)]
  BY DEF Installs, Install, Processed
<1>6. /\ docs'[d.to] = new
      /\ \A h \in Gateway : h # d.to => docs'[h] = docs[h]
      /\ \A e \in Direction : inflight'[e] \subseteq inflight[e]
  BY <1>1, <1>5 DEF TypeOK
<1>7. LET z == KeepIncoming(docs[d.to], r.doc) IN
      /\ z \in Doc
      /\ SameCV(z.hlv, r.doc.hlv) /\ z.body = r.doc.body
      /\ \A s \in Source : Value(z.hlv, s) =
            IF s = r.doc.hlv.src THEN r.doc.hlv.ver
            ELSE Larger(Value(r.doc.hlv, s), Value(docs[d.to].hlv, s))
  BY <1>3, MergedDoc
<1>8. LET z == KeepLocal(docs[d.to], r.doc) IN
      /\ z \in Doc
      /\ SameCV(z.hlv, docs[d.to].hlv) /\ z.body = docs[d.to].body
      /\ \A s \in Source : Value(z.hlv, s) =
            IF s = docs[d.to].hlv.src THEN docs[d.to].hlv.ver
            ELSE Larger(Value(docs[d.to].hlv, s), Value(r.doc.hlv, s))
  <2>1. LET z == KeepIncoming(r.doc, docs[d.to]) IN
        /\ z \in Doc
        /\ SameCV(z.hlv, docs[d.to].hlv) /\ z.body = docs[d.to].body
        /\ \A s \in Source : Value(z.hlv, s) =
              IF s = docs[d.to].hlv.src THEN docs[d.to].hlv.ver
              ELSE Larger(Value(docs[d.to].hlv, s), Value(r.doc.hlv, s))
    BY <1>3, MergedDoc
  <2> QED
    BY <1>4, <2>1
<1>9. Takes(d, r, new)
  BY DEF Installs
<1>10. CASE new = KeepIncoming(docs[d.to], r.doc) /\ Takes(d, r, new)
            /\ ~ (new = KeepLocal(docs[d.to], r.doc)
                  /\ Conflicts(docs[d.to], r.doc) /\ d.resolver
                  /\ ~ RemoteWins(docs[d.to], r.doc))
  BY <1>5, <1>6, <1>7, <1>10 DEF Takes
<1>11. CASE /\ new = KeepLocal(docs[d.to], r.doc)
            /\ Conflicts(docs[d.to], r.doc) /\ d.resolver
            /\ ~ RemoteWins(docs[d.to], r.doc)
  BY <1>5, <1>6, <1>8, <1>11
<1> QED
  BY <1>9, <1>10, <1>11 DEF Takes

-----------------------------------------------------------------------------
(* Two gateways: every install is a join of what the two copies know, so   *)
(* knowledge never shrinks.  A tombstone over a tombstone is the only step  *)
(* that can break it; the theorems ask that the test of dominance is made  *)
(* there too, or that nothing is ever deleted.                             *)

TwoGateways == \E g, h \in Source : g # h /\ Source = {g, h}

NoDeletions ==
    /\ InitialBody # Deleted
    /\ \A g \in Source : \A i \in DOMAIN Program[g] : Deleted \notin Program[g][i]

NoTombstone == \A x \in Copies : ~ IsTombstone(x)

DominanceTested == RecheckTombstonePath \/ NoTombstone

\* A gateway knows what it has sent.
SentKnown ==
    \A d \in Direction : \A r \in inflight[d] :
        KnowsAtLeast(docs[d.from].hlv, r.doc.hlv)

\* What a gateway has in flight, on any replication, was sent in an order of
\* growing knowledge.
SentOrdered ==
    \A d, e \in Direction : d.from = e.from =>
        \A r \in inflight[d] : \A q \in inflight[e] :
            \/ KnowsAtLeast(q.doc.hlv, r.doc.hlv)
            \/ KnowsAtLeast(r.doc.hlv, q.doc.hlv)

\* A revision that is late, whose receiver already knows a newer version of
\* its origin, has not seen the receiver's own current version: it cannot
\* replace it and bring the older knowledge back.
LateUnseen ==
    \A d \in Direction : \A r \in inflight[d] :
        /\ docs[d.to].hlv.src = d.to
        /\ Value(docs[d.to].hlv, d.from) > r.doc.hlv.ver
        => ~ DominatesCV(r.doc.hlv, docs[d.to].hlv)

GossipInv == DominanceTested /\ SentKnown /\ SentOrdered /\ LateUnseen

\* With two gateways every source is one end or the other.
LEMMA EitherEnd ==
    ASSUME TwoGateways, NEW g \in Source, NEW h \in Source, g # h,
           NEW s \in Source
    PROVE  s = g \/ s = h
BY DEF TwoGateways

\* Facts about the two copies that an install merges.
LEMMA MergeFacts ==
    ASSUME TwoGateways, TypeOK, VersionInv,
           NEW d \in Direction, NEW r \in inflight[d]
    PROVE  /\ docs[d.to] \in Copies /\ r.doc \in Copies
           /\ r.doc.hlv.src = d.from
           /\ docs[d.to].hlv.src \in {d.from, d.to}
           /\ docs[d.to].hlv.ver \in Nat /\ r.doc.hlv.ver \in Nat
           /\ \A s \in Source : /\ Value(docs[d.to].hlv, s) \in Nat
                                /\ Value(r.doc.hlv, s) \in Nat
           /\ Value(docs[d.to].hlv, docs[d.to].hlv.src) = docs[d.to].hlv.ver
           /\ Value(r.doc.hlv, d.from) = r.doc.hlv.ver
<1>1. d.to \in Gateway /\ d.to \in Source /\ d.from \in Source /\ d.from # d.to
  BY DirectionEnds
<1>2. docs[d.to] \in Copies /\ r.doc \in Copies
  BY <1>1, CopiesAreDocs
<1>3. r.doc.hlv.src # d.to
  BY DEF VersionInv, NothingReturns
<1>4. r.doc.hlv.src \in Source /\ docs[d.to].hlv.src \in Source
  BY <1>2, CopyNumbers
<1>5. r.doc.hlv.src = d.from /\ docs[d.to].hlv.src \in {d.from, d.to}
  BY <1>1, <1>3, <1>4, EitherEnd
<1> QED
  BY <1>2, <1>5, CopyNumbers

\* In a conflict neither side has seen the current version of the other.
LEMMA ConflictUnseen ==
    ASSUME NEW x, NEW y, Conflicts(x, y)
    PROVE  /\ ~ DominatesCV(x.hlv, y.hlv) /\ ~ DominatesCV(y.hlv, x.hlv)
           /\ ~ SameCV(x.hlv, y.hlv) /\ ~ BothTombstones(x, y)
BY DEF Conflicts, InConflict, Supersedes, AlreadyPresent

\* What is installed knows exactly what the receiver knew and what the
\* revision knew.
LEMMA InstallIsJoin ==
    ASSUME TwoGateways, TypeOK, VersionInv, GossipInv,
           NEW d \in Direction, NEW r \in inflight[d], NEW new,
           Installs(d, r, new)
    PROVE  \A s \in Source : Value(new.hlv, s) =
               Larger(Value(docs[d.to].hlv, s), Value(r.doc.hlv, s))
<1> DEFINE y == docs[d.to].hlv
           i == r.doc.hlv
<1>0. d.from \in Source /\ d.to \in Source /\ d.from # d.to
  BY DirectionEnds
<1>1. /\ docs[d.to] \in Copies /\ r.doc \in Copies
      /\ i.src = d.from /\ y.src \in {d.from, d.to}
      /\ y.ver \in Nat /\ i.ver \in Nat
      /\ \A s \in Source : Value(y, s) \in Nat /\ Value(i, s) \in Nat
      /\ Value(y, y.src) = y.ver /\ Value(i, d.from) = i.ver
  BY MergeFacts
<1>2. \/ /\ \A s \in Source : Value(new.hlv, s) =
               IF s = i.src THEN i.ver ELSE Larger(Value(i, s), Value(y, s))
         /\ \/ TakesTombstone(docs[d.to], r.doc)
            \/ TakesUpdate(docs[d.to], r.doc)
            \/ Conflicts(docs[d.to], r.doc)
      \/ /\ \A s \in Source : Value(new.hlv, s) =
               IF s = y.src THEN y.ver ELSE Larger(Value(y, s), Value(i, s))
         /\ Conflicts(docs[d.to], r.doc)
  BY InstallEffect
<1>3. LateUnseen /\ DominanceTested
  BY DEF GossipInv
<1>4. TakesTombstone(docs[d.to], r.doc) => ~ DominatesCV(y, i)
  BY <1>1, <1>3 DEF TakesTombstone, BothTombstones, DominanceTested, NoTombstone
<1>5. TakesUpdate(docs[d.to], r.doc) => DominatesCV(i, y)
  BY DEF TakesUpdate, Supersedes
<1>6. Conflicts(docs[d.to], r.doc) => ~ DominatesCV(y, i) /\ ~ DominatesCV(i, y)
  BY ConflictUnseen
<1>7. y.src = d.to /\ Value(y, d.from) > i.ver => ~ DominatesCV(i, y)
  BY <1>3 DEF LateUnseen
<1> HIDE DEF y, i
<1>8. ~ DominatesCV(y, i) => Value(y, d.from) <= i.ver
  BY <1>0, <1>1, SMT DEF DominatesCV
<1>9. DominatesCV(i, y) => Value(y, d.from) <= i.ver
  <2>1. CASE y.src = d.from
    BY <1>0, <1>1, <2>1, SMT DEF DominatesCV
  <2>2. CASE y.src = d.to
    BY <1>0, <1>1, <1>7, <2>2, SMT
  <2> QED
    BY <1>1, <2>1, <2>2
<1>10. ~ DominatesCV(i, y) => Value(i, y.src) <= y.ver
  BY <1>0, <1>1, SMT DEF DominatesCV
<1>11. ASSUME NEW s \in Source
       PROVE  Value(new.hlv, s) = Larger(Value(y, s), Value(i, s))
  <2>1. CASE /\ \A x \in Source : Value(new.hlv, x) =
                  IF x = i.src THEN i.ver ELSE Larger(Value(i, x), Value(y, x))
             /\ Value(y, d.from) <= i.ver
    BY <1>1, <2>1, SMT DEF Larger
  <2>2. CASE /\ \A x \in Source : Value(new.hlv, x) =
                  IF x = y.src THEN y.ver ELSE Larger(Value(y, x), Value(i, x))
             /\ Value(i, y.src) <= y.ver
    BY <1>1, <2>2, SMT DEF Larger
  <2> QED
    BY <1>2, <1>4, <1>5, <1>6, <1>8, <1>9, <1>10, <2>1, <2>2
<1> QED
  BY <1>11 DEF y, i

\* So each gateway knows, after any step, all that it knew, and after an
\* install all that the revision knew.
LEMMA StepKnows ==
    ASSUME TwoGateways, TypeOK, VersionInv, GossipInv, [Next]_vars
    PROVE  \A g \in Gateway : KnowsAtLeast(docs'[g].hlv, docs[g].hlv)
<1>0. \A g \in Gateway : \A s \in Source : Value(docs[g].hlv, s) \in Nat
  BY CopiesAreDocs, CopyNumbers
<1>1. ASSUME docs' = docs
      PROVE  \A g \in Gateway : KnowsAtLeast(docs'[g].hlv, docs[g].hlv)
  BY <1>0, <1>1, SMT DEF KnowsAtLeast
<1>2. ASSUME NEW g \in Gateway, LocalWrite(g)
      PROVE  \A h \in Gateway : KnowsAtLeast(docs'[h].hlv, docs[h].hlv)
  <2>1. PICK event \in Program[g][pcs[g] + 1], new \in Doc :
           /\ new.hlv.ver \in Nat
           /\ new.hlv.ver > Value(docs[g].hlv, g)
           /\ \A s \in Source : Value(new.hlv, s) =
                 IF s = g THEN new.hlv.ver ELSE Value(docs[g].hlv, s)
           /\ docs'[g] = new
           /\ \A h \in Gateway : h # g => docs'[h] = docs[h]
    BY <1>2, LocalWriteEffect
  <2>2. ASSUME NEW h \in Gateway, NEW s \in Source
        PROVE  Value(docs'[h].hlv, s) >= Value(docs[h].hlv, s)
    <3>1. Value(docs[h].hlv, s) \in Nat
      BY <1>0
    <3> QED
      BY <2>1, <3>1, SMT DEF Gateway
  <2> QED
    BY <2>2 DEF KnowsAtLeast
<1>3. ASSUME NEW d \in Direction, NEW r \in inflight[d], NEW new,
             Installs(d, r, new)
      PROVE  \A h \in Gateway : KnowsAtLeast(docs'[h].hlv, docs[h].hlv)
  <2>1. \A s \in Source : Value(new.hlv, s) =
            Larger(Value(docs[d.to].hlv, s), Value(r.doc.hlv, s))
    BY <1>3, InstallIsJoin
  <2>2. /\ docs'[d.to] = new
        /\ \A h \in Gateway : h # d.to => docs'[h] = docs[h]
    BY <1>3, InstallEffect
  <2>3. \A s \in Source : Value(r.doc.hlv, s) \in Nat
    BY MergeFacts
  <2>4. ASSUME NEW h \in Gateway, NEW s \in Source
        PROVE  Value(docs'[h].hlv, s) >= Value(docs[h].hlv, s)
    <3>1. Value(docs[h].hlv, s) \in Nat
      BY <1>0
    <3> QED
      BY <2>1, <2>2, <2>3, <3>1, SMT DEF Larger
  <2> QED
    BY <2>4 DEF KnowsAtLeast
<1>4. CASE UNCHANGED vars
  BY <1>1, <1>4 DEF vars
<1>5. CASE \E g \in Gateway : LocalWrite(g)
  BY <1>2, <1>5
<1>6. ASSUME NEW d \in Direction, Replicate(d)
      PROVE  \A g \in Gateway : KnowsAtLeast(docs'[g].hlv, docs[g].hlv)
  <2>1. CASE Skip(d) \/ Send(d)
    BY <1>1, <2>1 DEF Skip, Send
  <2>2. CASE \E r \in inflight[d] : Cancel(d, r) \/ Reject(d, r)
    BY <1>1, <2>2 DEF Cancel, Reject
  <2>3. CASE \E r \in inflight[d] : \E new : Installs(d, r, new)
    BY <1>3, <2>3
  <2> QED
    BY <1>6, <2>1, <2>2, <2>3, ReplicateCases
<1> QED
  BY <1>4, <1>5, <1>6 DEF Next

\* A step that changes at most the copy of g, and puts nothing in flight but
\* copies of what is there, has no other new copy.
LEMMA CopiesAfter ==
    ASSUME TypeOK, NEW g \in Gateway,
           \A h \in Gateway : h # g => docs'[h] = docs[h],
           \A e \in Direction : \A q \in inflight'[e] : q.doc \in Copies
    PROVE  \A x \in Copies' : x \in Copies \/ x = docs'[g]
<1>1. \A x \in Copies' :
         \/ \E h \in Gateway : x = docs'[h]
         \/ \E e \in Direction : \E q \in inflight'[e] : x = q.doc
  BY Zenon DEF Copies
<1> QED
  BY <1>1, CopiesAreDocs

\* What a replication does to the flights: it takes some off, or it sends.
LEMMA FlightsAfter ==
    ASSUME TypeOK, NEW d \in Direction, Replicate(d)
    PROVE  \/ \A e \in Direction : inflight'[e] \subseteq inflight[e]
           \/ /\ Send(d) /\ docs' = docs
              /\ \A e \in Direction : \A q \in inflight'[e] :
                    \/ q \in inflight[e]
                    \/ e = d /\ q.doc = docs[d.from] /\ q.seq = seqs[d.from]
<1>1. CASE Skip(d)
  BY <1>1 DEF Skip
<1>2. CASE Send(d)
  BY <1>2 DEF Send, TypeOK
<1>3. CASE \E r \in inflight[d] : Apply(d, r)
  <2>1. PICK r \in inflight[d] : Processed(d, r)
    BY <1>3 DEF Apply, Cancel, TombstoneOverTombstone, FastForward, Reject,
       Resolve, ResolveRemoteWins, ResolveLocalWins
  <2> QED
    BY <2>1 DEF Processed, TypeOK
<1> QED
  BY <1>1, <1>2, <1>3 DEF Replicate

\* With no event that deletes there is never a tombstone.
LEMMA NoTombstoneKept ==
    ASSUME NoDeletions, TypeOK, VersionInv, NoTombstone, [Next]_vars
    PROVE  NoTombstone'
<1>1. CASE UNCHANGED vars
  <2>1. Copies' = Copies
    BY <1>1 DEF vars, Copies
  <2> QED
    BY <2>1 DEF NoTombstone, IsTombstone
<1>2. ASSUME NEW g \in Gateway, LocalWrite(g)
      PROVE  NoTombstone'
  <2>1. PICK event \in Program[g][pcs[g] + 1], new \in Doc :
           /\ new.body = event /\ docs'[g] = new
           /\ \A h \in Gateway : h # g => docs'[h] = docs[h]
           /\ inflight' = inflight
    BY <1>2, LocalWriteEffect
  <2>2. pcs[g] + 1 \in DOMAIN Program[g]
    <3>1. Program[g] \in Seq(SUBSET Body) /\ pcs[g] \in Nat
      BY ProgramType DEF TypeOK, Gateway
    <3> QED
      BY <1>2, <3>1, SMT DEF LocalWrite
  <2>3. event # Deleted
    BY <2>2 DEF NoDeletions, Gateway
  <2>4. \A x \in Copies' : x \in Copies \/ x = new
    BY <2>1, CopiesAfter, CopiesAreDocs
  <2> QED
    BY <2>1, <2>3, <2>4 DEF NoTombstone, IsTombstone
<1>3. ASSUME NEW d \in Direction, Replicate(d)
      PROVE  NoTombstone'
  <2>1. d.to \in Gateway /\ d.from \in Gateway
    BY DirectionEnds
  <2>2. \A e \in Direction : \A q \in inflight'[e] : q.doc \in Copies
    BY <1>3, <2>1, FlightsAfter, CopiesAreDocs
  <2>3. CASE docs' = docs
    <3>1. \A x \in Copies' : x \in Copies
      BY <2>1, <2>2, <2>3, CopiesAfter, CopiesAreDocs
    <3> QED
      BY <3>1 DEF NoTombstone, IsTombstone
  <2>4. ASSUME NEW r \in inflight[d], NEW new, Installs(d, r, new)
        PROVE  NoTombstone'
    <3>1. /\ docs'[d.to] = new
          /\ \A h \in Gateway : h # d.to => docs'[h] = docs[h]
          /\ new.body \in {r.doc.body, docs[d.to].body}
      BY <2>4, InstallEffect
    <3>2. \A x \in Copies' : x \in Copies \/ x = new
      BY <2>1, <2>2, <3>1, CopiesAfter
    <3> QED
      BY <2>1, <3>1, <3>2, CopiesAreDocs DEF NoTombstone, IsTombstone
  <2> QED
    BY <1>3, <2>3, <2>4, ReplicateCases DEF Skip, Send, Cancel, Reject
<1> QED
  BY <1>1, <1>2, <1>3 DEF Next

\* Knowing at least is transitive, on the copies of a state and of the next.
LEMMA KnowsTrans ==
    ASSUME NEW h, NEW k, NEW l,
           \A s \in Source : /\ Value(h, s) \in Int /\ Value(k, s) \in Int
                             /\ Value(l, s) \in Int,
           KnowsAtLeast(h, k), KnowsAtLeast(k, l)
    PROVE  KnowsAtLeast(h, l)
<1> SUFFICES ASSUME NEW s \in Source
             PROVE  Value(h, s) >= Value(l, s)
  BY DEF KnowsAtLeast
<1>1. Value(h, s) >= Value(k, s) /\ Value(k, s) >= Value(l, s)
  BY DEF KnowsAtLeast
<1> QED
  BY <1>1, SMT

\* Every step keeps the three statements about what is in flight.
LEMMA SentKnownKept ==
    ASSUME TwoGateways, TypeOK, VersionInv, GossipInv, TypeOK', VersionInv',
           [Next]_vars
    PROVE  SentKnown'
<1>1. \A g \in Gateway : KnowsAtLeast(docs'[g].hlv, docs[g].hlv)
  BY StepKnows
<1>2. \A g \in Gateway : \A s \in Source :
         Value(docs[g].hlv, s) \in Nat /\ Value(docs'[g].hlv, s) \in Nat
  BY ValueType DEF TypeOK, Doc
<1>3. SentKnown
  BY DEF GossipInv
<1>4. ASSUME NEW e \in Direction, NEW q \in inflight[e]
      PROVE  KnowsAtLeast(docs'[e.from].hlv, q.doc.hlv)
  <2>1. e.from \in Gateway
    BY DirectionEnds
  <2>2. \A s \in Source : Value(q.doc.hlv, s) \in Nat
    BY MergeFacts
  <2>3. KnowsAtLeast(docs[e.from].hlv, q.doc.hlv)
    BY <1>3 DEF SentKnown
  <2> QED
    BY <1>1, <1>2, <2>1, <2>2, <2>3, KnowsTrans
<1>5. CASE \A e \in Direction : inflight'[e] \subseteq inflight[e]
  BY <1>4, <1>5 DEF SentKnown, KnowsAtLeast, Value
<1>6. ASSUME NEW d \in Direction, docs' = docs,
             \A e \in Direction : \A q \in inflight'[e] :
                q \in inflight[e] \/ (e = d /\ q.doc = docs[d.from])
      PROVE  SentKnown'
  <2>1. d.from \in Gateway
    BY DirectionEnds
  <2>2. KnowsAtLeast(docs'[d.from].hlv, docs[d.from].hlv)
    BY <1>1, <2>1
  <2>3. \A e \in Direction : \A q \in inflight'[e] :
           KnowsAtLeast(docs'[e.from].hlv, q.doc.hlv)
    BY <1>4, <1>6, <2>2
  <2> QED
    BY <2>3 DEF SentKnown, KnowsAtLeast, Value
<1>7. CASE UNCHANGED vars
  BY <1>5, <1>7 DEF vars
<1>8. CASE \E g \in Gateway : LocalWrite(g)
  BY <1>5, <1>8 DEF LocalWrite
<1>9. CASE \E d \in Direction : Replicate(d)
  BY <1>5, <1>6, <1>9, FlightsAfter
<1> QED
  BY <1>7, <1>8, <1>9 DEF Next

LEMMA SentOrderedKept ==
    ASSUME TwoGateways, TypeOK, VersionInv, GossipInv, [Next]_vars
    PROVE  SentOrdered'
<1>1. SentOrdered /\ SentKnown
  BY DEF GossipInv
<1>2. CASE \A e \in Direction : inflight'[e] \subseteq inflight[e]
  BY <1>1, <1>2 DEF SentOrdered, KnowsAtLeast, Value
<1>3. ASSUME NEW d \in Direction,
             \A e \in Direction : \A q \in inflight'[e] :
                q \in inflight[e] \/ (e = d /\ q.doc = docs[d.from])
      PROVE  SentOrdered'
  <2>1. d.from \in Gateway
    BY DirectionEnds
  <2>2. KnowsAtLeast(docs[d.from].hlv, docs[d.from].hlv)
    <3>1. \A s \in Source : Value(docs[d.from].hlv, s) \in Nat
      BY <2>1, ValueType DEF TypeOK, Doc
    <3> QED
      BY <3>1, SMT DEF KnowsAtLeast
  <2>3. ASSUME NEW e \in Direction, NEW c \in Direction, c.from = e.from,
               NEW q \in inflight'[e], NEW r \in inflight'[c]
        PROVE  \/ KnowsAtLeast(q.doc.hlv, r.doc.hlv)
               \/ KnowsAtLeast(r.doc.hlv, q.doc.hlv)
    <3>1. CASE q \in inflight[e] /\ r \in inflight[c]
      BY <1>1, <2>3, <3>1 DEF SentOrdered
    <3>2. CASE q \in inflight[e] /\ r.doc = docs[d.from] /\ c = d
      BY <1>1, <2>3, <3>2 DEF SentKnown
    <3>3. CASE q.doc = docs[d.from] /\ e = d /\ r \in inflight[c]
      BY <1>1, <2>3, <3>3 DEF SentKnown
    <3>4. CASE q.doc = docs[d.from] /\ r.doc = docs[d.from]
      BY <2>2, <3>4
    <3> QED
      BY <1>3, <3>1, <3>2, <3>3, <3>4
  <2> QED
    BY <2>3 DEF SentOrdered, KnowsAtLeast, Value
<1>4. CASE UNCHANGED vars
  BY <1>2, <1>4 DEF vars
<1>5. CASE \E g \in Gateway : LocalWrite(g)
  BY <1>2, <1>5 DEF LocalWrite
<1>6. CASE \E d \in Direction : Replicate(d)
  BY <1>2, <1>3, <1>6, FlightsAfter
<1> QED
  BY <1>4, <1>5, <1>6 DEF Next

LEMMA LateUnseenKept ==
    ASSUME TwoGateways, TypeOK, VersionInv, GossipInv, TypeOK', VersionInv',
           [Next]_vars
    PROVE  LateUnseen'
<1>0. LateUnseen /\ SentOrdered
  BY DEF GossipInv
<1>1. \A e \in Direction : \A q \in inflight[e] :
         /\ q.doc.hlv.src = e.from /\ q.doc.hlv.ver \in Nat
         /\ Value(q.doc.hlv, e.from) = q.doc.hlv.ver
         /\ \A s \in Source : Value(q.doc.hlv, s) \in Nat
  BY MergeFacts
<1>2. ASSUME docs' = docs,
             \A e \in Direction : inflight'[e] \subseteq inflight[e]
      PROVE  LateUnseen'
  BY <1>0, <1>2 DEF LateUnseen, DominatesCV, Value
<1>3. ASSUME NEW g \in Gateway, LocalWrite(g)
      PROVE  LateUnseen'
  <2>1. PICK event \in Program[g][pcs[g] + 1], new \in Doc :
           /\ new.hlv.src = g /\ new.hlv.ver \in Nat
           /\ new.hlv.ver > Value(docs[g].hlv, g)
           /\ docs'[g] = new
           /\ \A h \in Gateway : h # g => docs'[h] = docs[h]
           /\ inflight' = inflight
    BY <1>3, LocalWriteEffect
  <2> SUFFICES ASSUME NEW e \in Direction, NEW q \in inflight[e],
                      docs'[e.to].hlv.src = e.to,
                      Value(docs'[e.to].hlv, e.from) > q.doc.hlv.ver
               PROVE  ~ DominatesCV(q.doc.hlv, docs'[e.to].hlv)
    BY <2>1 DEF LateUnseen, DominatesCV, Value
  <2>2. e.to \in Gateway /\ e.to \in Source
    BY DirectionEnds
  <2>3. CASE e.to = g
    <3>1. Value(q.doc.hlv, g) <= Value(docs[g].hlv, g)
      BY <2>2, <2>3, CopiesAreDocs DEF VersionInv, OwnVersionsAreNewest
    <3>2. Value(q.doc.hlv, g) \in Nat /\ Value(docs[g].hlv, g) \in Nat
      BY <1>1, <2>2, <2>3, CopiesAreDocs, CopyNumbers
    <3>3. ~ (Value(q.doc.hlv, g) >= new.hlv.ver)
      BY <2>1, <3>1, <3>2, SMT
    <3> QED
      BY <2>1, <2>3, <3>3 DEF DominatesCV
  <2>4. CASE e.to # g
    <3>1. docs'[e.to] = docs[e.to]
      BY <2>1, <2>2, <2>4
    <3> QED
      BY <1>0, <3>1 DEF LateUnseen
  <2> QED
    BY <2>3, <2>4
<1>4. ASSUME NEW d \in Direction, Send(d), docs' = docs,
             \A e \in Direction : \A q \in inflight'[e] :
                q \in inflight[e] \/ (e = d /\ q.doc = docs[d.from])
      PROVE  LateUnseen'
  <2>1. /\ d.from \in Gateway /\ d.to \in Gateway
        /\ d.from \in Source /\ d.to \in Source /\ d.from # d.to
    BY DirectionEnds
  <2>2. docs[d.to] \in Copies /\ docs[d.from] \in Copies
    BY <2>1, CopiesAreDocs
  <2>3. Value(docs[d.to].hlv, d.from) <= Value(docs[d.from].hlv, d.from)
    BY <2>1, <2>2 DEF VersionInv, OwnVersionsAreNewest
  <2>4. docs[d.from].hlv.src = d.from
    <3>1. ~ (Value(docs[d.to].hlv, docs[d.from].hlv.src) >= docs[d.from].hlv.ver)
      BY <1>4 DEF Send, KnownAtReceiver, DominatesCV
    <3>2. Value(docs[d.from].hlv, d.to) <= Value(docs[d.to].hlv, d.to)
      BY <2>1, <2>2 DEF VersionInv, OwnVersionsAreNewest
    <3>3. ASSUME docs[d.from].hlv.src = d.to
          PROVE  FALSE
      BY <2>2, <3>1, <3>2, <3>3, CopyNumbers, SMT
    <3> QED
      BY <2>1, <2>2, <3>3, CopyNumbers, EitherEnd
  <2>5. ~ (Value(docs[d.to].hlv, d.from) > docs[d.from].hlv.ver)
    BY <2>1, <2>2, <2>3, <2>4, CopyNumbers, SMT
  <2>6. ASSUME NEW e \in Direction, NEW q \in inflight'[e],
               docs[e.to].hlv.src = e.to,
               Value(docs[e.to].hlv, e.from) > q.doc.hlv.ver
        PROVE  ~ DominatesCV(q.doc.hlv, docs[e.to].hlv)
    BY <1>0, <1>4, <2>5, <2>6 DEF LateUnseen
  <2> QED
    BY <1>4, <2>6 DEF LateUnseen, DominatesCV, Value
<1>5. ASSUME NEW d \in Direction, NEW r \in inflight[d], NEW new,
             Installs(d, r, new)
      PROVE  LateUnseen'
  <2>1. /\ docs'[d.to] = new
        /\ \A h \in Gateway : h # d.to => docs'[h] = docs[h]
        /\ \A e \in Direction : inflight'[e] \subseteq inflight[e]
        /\ \/ SameCV(new.hlv, r.doc.hlv)
           \/ SameCV(new.hlv, docs[d.to].hlv) /\ Conflicts(docs[d.to], r.doc)
    BY <1>5, InstallEffect
  <2>2. \A s \in Source : Value(new.hlv, s) =
            Larger(Value(docs[d.to].hlv, s), Value(r.doc.hlv, s))
    BY <1>5, InstallIsJoin
  <2> SUFFICES ASSUME NEW e \in Direction, NEW q \in inflight[e],
                      docs'[e.to].hlv.src = e.to,
                      Value(docs'[e.to].hlv, e.from) > q.doc.hlv.ver,
                      DominatesCV(q.doc.hlv, docs'[e.to].hlv)
               PROVE  FALSE
    BY <2>1 DEF LateUnseen, DominatesCV, Value
  <2>3. /\ e.to \in Gateway /\ e.to \in Source /\ e.from \in Source
        /\ e.from # e.to
        /\ d.to \in Source /\ d.from \in Source /\ d.from # d.to
    BY DirectionEnds
  <2>4. e.to = d.to
    <3>1. CASE e.to # d.to
      BY <1>0, <2>1, <2>3, <3>1 DEF LateUnseen
    <3> QED
      BY <3>1
  <2>5. e.from = d.from
    BY <2>3, <2>4, EitherEnd
  <2>6. /\ docs[d.to].hlv.src \in {d.from, d.to}
        /\ docs[d.to].hlv.ver \in Nat /\ r.doc.hlv.ver \in Nat
        /\ r.doc.hlv.src = d.from /\ Value(r.doc.hlv, d.from) = r.doc.hlv.ver
        /\ \A s \in Source : /\ Value(docs[d.to].hlv, s) \in Nat
                             /\ Value(r.doc.hlv, s) \in Nat
    BY MergeFacts
  <2>7. /\ SameCV(new.hlv, docs[d.to].hlv) /\ Conflicts(docs[d.to], r.doc)
        /\ docs[d.to].hlv.src = d.to /\ new.hlv.ver = docs[d.to].hlv.ver
    BY <2>1, <2>3, <2>4, <2>6 DEF SameCV
  <2>8. DominatesCV(q.doc.hlv, docs[d.to].hlv)
    BY <2>1, <2>4, <2>7 DEF DominatesCV, SameCV
  <2>9. ~ (Value(docs[d.to].hlv, d.from) > q.doc.hlv.ver)
    BY <1>0, <2>4, <2>5, <2>7, <2>8 DEF LateUnseen
  <2>10. r.doc.hlv.ver > q.doc.hlv.ver
    BY <1>1, <2>1, <2>2, <2>3, <2>4, <2>5, <2>6, <2>9, SMT DEF Larger
  <2>11. ~ KnowsAtLeast(q.doc.hlv, r.doc.hlv)
    BY <1>1, <2>3, <2>5, <2>6, <2>10, SMT DEF KnowsAtLeast
  <2>12. KnowsAtLeast(r.doc.hlv, q.doc.hlv)
    BY <1>0, <2>5, <2>11 DEF SentOrdered
  <2>13. ~ (Value(r.doc.hlv, d.to) >= docs[d.to].hlv.ver)
    BY <2>7, ConflictUnseen DEF DominatesCV
  <2>14. Value(q.doc.hlv, d.to) >= docs[d.to].hlv.ver
    BY <2>7, <2>8 DEF DominatesCV
  <2>15. Value(r.doc.hlv, d.to) >= Value(q.doc.hlv, d.to)
    BY <2>3, <2>12 DEF KnowsAtLeast
  <2> QED
    BY <1>1, <2>3, <2>6, <2>13, <2>14, <2>15, SMT
<1>6. CASE UNCHANGED vars
  BY <1>2, <1>6 DEF vars
<1>7. CASE \E g \in Gateway : LocalWrite(g)
  BY <1>3, <1>7
<1>8. ASSUME NEW d \in Direction, Replicate(d)
      PROVE  LateUnseen'
  <2>1. CASE Send(d)
    <3>1. \A e \in Direction : \A q \in inflight'[e] :
             q \in inflight[e] \/ (e = d /\ q.doc = docs[d.from])
      BY <1>8, FlightsAfter
    <3> QED
      BY <1>4, <2>1, <3>1 DEF Send
  <2>2. CASE Skip(d)
    BY <1>2, <2>2 DEF Skip
  <2>3. ASSUME NEW r \in inflight[d], Cancel(d, r) \/ Reject(d, r)
        PROVE  LateUnseen'
    BY <1>2, <2>3, DropEffect
  <2> QED
    BY <1>5, <1>8, <2>1, <2>2, <2>3, ReplicateCases
<1> QED
  BY <1>6, <1>7, <1>8 DEF Next

\* The invariant behind the two theorems that follow.
GossipHolds == TypeOK /\ VersionInv /\ GossipInv

LEMMA GossipStep ==
    ASSUME TwoGateways, RecheckTombstonePath \/ NoDeletions
    PROVE  /\ Init => GossipHolds
           /\ GossipHolds /\ [Next]_vars => GossipHolds'
<1>1. ASSUME Init
      PROVE  GossipHolds
  <2>1. SentKnown /\ SentOrdered /\ LateUnseen
    BY <1>1 DEF Init, SentKnown, SentOrdered, LateUnseen
  <2>2. \A x \in Copies : x = InitialDoc
    <3>1. \A x \in Copies : \/ \E g \in Gateway : x = docs[g]
                            \/ \E d \in Direction : \E r \in inflight[d] : x = r.doc
      BY Zenon DEF Copies
    <3> QED
      BY <1>1, <3>1 DEF Init
  <2>3. DominanceTested
    BY <2>2 DEF DominanceTested, NoTombstone, IsTombstone, InitialDoc, NoDeletions
  <2> QED
    BY <1>1, <2>1, <2>3, InitHolds DEF GossipHolds, GossipInv
<1>2. ASSUME GossipHolds, [Next]_vars
      PROVE  GossipHolds'
  <2>1. TypeOK /\ VersionInv /\ GossipInv
    BY <1>2 DEF GossipHolds
  <2>2. TypeOK' /\ VersionInv'
    BY <1>2, <2>1, StepHolds
  <2>3. DominanceTested'
    BY <1>2, <2>1, NoTombstoneKept DEF GossipInv, DominanceTested
  <2> QED
    BY <1>2, <2>1, <2>2, <2>3, SentKnownKept, SentOrderedKept, LateUnseenKept
       DEF GossipHolds, GossipInv
<1> QED
  BY <1>1, <1>2

\* No step makes a gateway forget a version it has seen, whatever the clocks,
\* the program and the order in which revisions are applied: two gateways,
\* with the test of dominance between tombstones or without any deletion.
THEOREM KnowledgeGrows ==
    ASSUME TwoGateways, RecheckTombstonePath \/ NoDeletions
    PROVE  Spec => KnowledgeNeverShrinks
<1>1. Spec => []GossipHolds
  <2>1. Init => GossipHolds
    BY GossipStep
  <2>2. GossipHolds /\ [Next]_vars => GossipHolds'
    BY GossipStep
  <2> QED
    BY <2>1, <2>2, PTL DEF Spec
<1>2. GossipHolds /\ [Next]_vars =>
         [\A g \in Gateway : KnowsAtLeast(docs'[g].hlv, docs[g].hlv)]_vars
  BY StepKnows DEF GossipHolds
<1>3. []GossipHolds /\ [][Next]_vars => KnowledgeNeverShrinks
  BY <1>2, PTL DEF KnowledgeNeverShrinks
<1> QED
  BY <1>1, <1>3, PTL DEF Spec

-----------------------------------------------------------------------------
(* The gossip that replication implements: a local write is a write, a     *)
(* send copies the vector of its origin, an install is a join, and a       *)
(* cancelled or rejected revision is a copy lost.                          *)

\* The vector of a gateway as a function.
LEMMA KnowOf ==
    ASSUME TypeOK
    PROVE  /\ knowOf \in [Source -> [Source -> Nat]]
           /\ \A g \in Source : knowOf[g] = Knowledge(docs[g].hlv)
           /\ \A g, s \in Source : knowOf[g][s] = Value(docs[g].hlv, s)
<1>1. \A g \in Source : \A s \in Source : Value(docs[g].hlv, s) \in Nat
  BY ValueType DEF TypeOK, Doc, Gateway
<1>2. \A g \in Source : Knowledge(docs[g].hlv) \in [Source -> Nat]
  BY <1>1 DEF Knowledge
<1>3. \A g \in Source : knowOf[g] = Knowledge(docs[g].hlv)
  BY DEF knowOf, Gateway
<1>4. \A g, s \in Source : Knowledge(docs[g].hlv)[s] = Value(docs[g].hlv, s)
  BY DEF Knowledge
<1> QED
  BY <1>2, <1>3, <1>4 DEF knowOf, Gateway

LEMMA WireOf ==
    ASSUME NEW flights
    PROVE  LET wire == {Knowledge(r.doc.hlv) :
                           r \in UNION {flights[d] : d \in Direction}} IN
           /\ \A d \in Direction : \A r \in flights[d] :
                 Knowledge(r.doc.hlv) \in wire
           /\ \A w \in wire : \E d \in Direction : \E r \in flights[d] :
                 w = Knowledge(r.doc.hlv)
<1>1. \A r : r \in UNION {flights[d] : d \in Direction} <=>
             \E d \in Direction : r \in flights[d]
  BY Zenon
<1> QED
  BY <1>1, Zenon

LEMMA WireOfNow ==
    /\ \A d \in Direction : \A r \in inflight[d] :
          Knowledge(r.doc.hlv) \in wireOf
    /\ \A w \in wireOf : \E d \in Direction : \E r \in inflight[d] :
          w = Knowledge(r.doc.hlv)
    /\ \A d \in Direction : \A r \in inflight'[d] :
          Knowledge(r.doc.hlv) \in wireOf'
    /\ \A w \in wireOf' : \E d \in Direction : \E r \in inflight'[d] :
          w = Knowledge(r.doc.hlv)
BY WireOf DEF wireOf, Knowledge, Value

\* A revision taken off leaves the copies under way as they were, or without
\* the one that it carried.
LEMMA WireTaken ==
    ASSUME TypeOK, NEW d \in Direction, NEW r \in inflight[d],
           inflight' = [inflight EXCEPT ![d] = @ \ {r}]
    PROVE  Gossip!Taken(Knowledge(r.doc.hlv))
<1> DEFINE k == Knowledge(r.doc.hlv)
<1>1. wireOf' \subseteq wireOf
  <2>1. \A w \in wireOf' : \E e \in Direction : \E q \in inflight'[e] :
           w = Knowledge(q.doc.hlv)
    BY WireOfNow
  <2>2. \A e \in Direction : inflight'[e] \subseteq inflight[e]
    BY DEF TypeOK
  <2> QED
    BY <2>1, <2>2, WireOfNow
<1>2. \A w \in wireOf : w # k => w \in wireOf'
  <2> SUFFICES ASSUME NEW w \in wireOf, w # k
               PROVE  w \in wireOf'
    OBVIOUS
  <2>0. PICK e \in Direction : \E q \in inflight[e] : w = Knowledge(q.doc.hlv)
    BY WireOfNow
  <2>1. PICK q \in inflight[e] : w = Knowledge(q.doc.hlv)
    BY <2>0
  <2>2. q # r
    BY <2>1
  <2>3. q \in inflight'[e]
    BY <2>2 DEF TypeOK
  <2> QED
    BY <2>1, <2>3, WireOfNow
<1> HIDE DEF k
<1>3. wireOf' = wireOf \/ wireOf' = wireOf \ {k}
  BY <1>1, <1>2
<1> QED
  BY <1>3 DEF Gossip!Taken, k

\* A step that leaves the copies of the gateways leaves their vectors.
LEMMA KnowUnchanged == docs' = docs => knowOf' = knowOf
BY DEF knowOf, Knowledge, Value

\* Every step of replication is a step of gossip, or none.
LEMMA StepGossips ==
    ASSUME TwoGateways, GossipHolds, TypeOK', [Next]_vars
    PROVE  [Gossip!Next]_(Gossip!gossipVars)
<1>0. TypeOK /\ VersionInv /\ GossipInv
  BY DEF GossipHolds
<1>1. /\ knowOf \in [Source -> [Source -> Nat]]
      /\ \A g \in Source : knowOf[g] = Knowledge(docs[g].hlv)
      /\ \A g, s \in Source : knowOf[g][s] = Value(docs[g].hlv, s)
  BY <1>0, KnowOf
<1>2. /\ knowOf' \in [Source -> [Source -> Nat]]
      /\ \A g \in Source : knowOf'[g] = Knowledge(docs'[g].hlv)
      /\ \A g, s \in Source : knowOf'[g][s] = Value(docs'[g].hlv, s)
  <2>1. \A g \in Source : \A s \in Source : Value(docs'[g].hlv, s) \in Nat
    BY ValueType DEF TypeOK, Doc, Gateway
  <2>2. \A g \in Source : Knowledge(docs'[g].hlv) \in [Source -> Nat]
    BY <2>1 DEF Knowledge
  <2>3. knowOf' = [g \in Source |-> Knowledge(docs'[g].hlv)]
    BY DEF knowOf, Gateway, Knowledge, Value
  <2>4. \A g, s \in Source : Knowledge(docs'[g].hlv)[s] = Value(docs'[g].hlv, s)
    BY DEF Knowledge
  <2> QED
    BY <2>2, <2>3, <2>4
<1>3. CASE docs' = docs /\ inflight' = inflight
  <2>1. knowOf' = knowOf /\ wireOf' = wireOf
    BY <1>3, KnowUnchanged DEF wireOf, Knowledge, Value
  <2> QED
    BY <2>1 DEF Gossip!gossipVars
<1>4. ASSUME NEW g \in Gateway, LocalWrite(g)
      PROVE  Gossip!Write(g)
  <2>1. PICK event \in Program[g][pcs[g] + 1], new \in Doc :
           /\ new.hlv.ver \in Nat
           /\ new.hlv.ver > Value(docs[g].hlv, g)
           /\ \A s \in Source : Value(new.hlv, s) =
                 IF s = g THEN new.hlv.ver ELSE Value(docs[g].hlv, s)
           /\ docs'[g] = new
           /\ \A h \in Gateway : h # g => docs'[h] = docs[h]
           /\ inflight' = inflight
    BY <1>0, <1>4, LocalWriteEffect
  <2>2. g \in Source /\ Gateway = Source
    BY DEF Gateway
  <2>3. knowOf'[g][g] > knowOf[g][g]
    BY <1>1, <1>2, <2>1, <2>2
  <2>4. \A h \in Source : h # g => knowOf'[h] = knowOf[h]
    BY <1>1, <1>2, <2>1, <2>2
  <2>5. \A s \in Source : s # g => knowOf'[g][s] = knowOf[g][s]
    BY <1>1, <1>2, <2>1, <2>2
  <2>6. knowOf'[g] = [knowOf[g] EXCEPT ![g] = knowOf'[g][g]]
    BY <1>1, <1>2, <2>2, <2>5
  <2>7. knowOf' = [knowOf EXCEPT ![g] = [knowOf[g] EXCEPT ![g] = knowOf'[g][g]]]
    BY <1>1, <1>2, <2>2, <2>4, <2>6
  <2>8. wireOf' = wireOf
    BY <2>1 DEF wireOf, Knowledge, Value
  <2> QED
    BY <2>3, <2>7, <2>8 DEF Gossip!Write
<1>5. ASSUME NEW d \in Direction, Send(d)
      PROVE  Gossip!Copy(d.from)
  <2>1. docs' = docs /\ d.from \in Source
    BY <1>5, DirectionEnds DEF Send
  <2>2. inflight' = [inflight EXCEPT ![d] =
                        @ \cup {[doc |-> docs[d.from], seq |-> seqs[d.from]]}]
    BY <1>5 DEF Send
  <2>3. \A w \in wireOf' : w \in wireOf \cup {knowOf[d.from]}
    <3>1. \A e \in Direction : \A q \in inflight'[e] :
             q \in inflight[e] \/ q.doc = docs[d.from]
      BY <1>0, <2>2 DEF TypeOK
    <3> QED
      BY <1>1, <2>1, <3>1, WireOfNow
  <2>4. \A w \in wireOf \cup {knowOf[d.from]} : w \in wireOf'
    <3>1. \A e \in Direction : inflight[e] \subseteq inflight'[e]
      BY <1>0, <2>2 DEF TypeOK
    <3>2. \E q \in inflight'[d] : q.doc = docs[d.from]
      <4> DEFINE q == [doc |-> docs[d.from], seq |-> seqs[d.from]]
      <4>1. q.doc = docs[d.from]
        OBVIOUS
      <4>2. inflight' = [inflight EXCEPT ![d] = @ \cup {q}]
        BY <2>2
      <4> HIDE DEF q
      <4>3. q \in inflight'[d]
        BY <1>0, <4>2 DEF TypeOK
      <4> QED
        BY <4>1, <4>3
    <3> QED
      BY <1>1, <2>1, <3>1, <3>2, WireOfNow
  <2>5. wireOf' = wireOf \cup {knowOf[d.from]}
    BY <2>3, <2>4
  <2> QED
    BY <2>1, <2>5, KnowUnchanged DEF Gossip!Copy
<1>6. ASSUME NEW d \in Direction, NEW r \in inflight[d],
             Cancel(d, r) \/ Reject(d, r)
      PROVE  \E w \in wireOf : Gossip!Drop(w)
  <2>1. docs' = docs /\ inflight' = [inflight EXCEPT ![d] = @ \ {r}]
    BY <1>0, <1>6, DropEffect
  <2>2. Gossip!Taken(Knowledge(r.doc.hlv))
    BY <1>0, <2>1, WireTaken
  <2>3. Knowledge(r.doc.hlv) \in wireOf
    BY WireOfNow
  <2> QED
    BY <2>1, <2>2, <2>3, KnowUnchanged DEF Gossip!Drop
<1>7. ASSUME NEW d \in Direction, NEW r \in inflight[d], NEW new,
             Installs(d, r, new)
      PROVE  \E w \in wireOf : Gossip!Learn(d.to, w)
  <2> DEFINE k == Knowledge(r.doc.hlv)
  <2>1. /\ docs'[d.to] = new
        /\ \A h \in Gateway : h # d.to => docs'[h] = docs[h]
        /\ inflight' = [inflight EXCEPT ![d] = @ \ {r}]
    BY <1>0, <1>7, InstallEffect
  <2>2. Gossip!Taken(k) /\ k \in wireOf
    BY <1>0, <2>1, WireTaken, WireOfNow
  <2>3. \A s \in Source : Value(new.hlv, s) =
            Larger(Value(docs[d.to].hlv, s), Value(r.doc.hlv, s))
    BY <1>0, <1>7, InstallIsJoin
  <2>4. d.to \in Source /\ Gateway = Source
    BY DirectionEnds DEF Gateway
  <2>5. knowOf'[d.to] = Gossip!Join(knowOf[d.to], k)
    <3>1. \A s \in Source : k[s] = Value(r.doc.hlv, s)
      BY DEF Knowledge
    <3>2. \A s \in Source : Gossip!Join(knowOf[d.to], k)[s] =
             Larger(knowOf[d.to][s], k[s])
      BY DEF Gossip!Join, Larger
    <3>3. Gossip!Join(knowOf[d.to], k) = [s \in Source |-> Gossip!Join(knowOf[d.to], k)[s]]
      BY DEF Gossip!Join
    <3>4. \A s \in Source : knowOf'[d.to][s] = Gossip!Join(knowOf[d.to], k)[s]
      BY <1>1, <1>2, <2>1, <2>3, <2>4, <3>1, <3>2
    <3> HIDE DEF k
    <3> QED
      BY <1>2, <2>4, <3>3, <3>4
  <2>6. ASSUME NEW h \in Source, h # d.to
        PROVE  knowOf'[h] = knowOf[h]
    <3>1. docs'[h] = docs[h]
      BY <2>1, <2>4, <2>6
    <3> QED
      BY <1>1, <1>2, <3>1
  <2>7. knowOf' = [knowOf EXCEPT ![d.to] = Gossip!Join(knowOf[d.to], k)]
    BY <1>1, <1>2, <2>4, <2>5, <2>6
  <2> QED
    BY <2>2, <2>7 DEF Gossip!Learn
<1>8. CASE UNCHANGED vars
  BY <1>3, <1>8 DEF vars
<1>9. CASE \E g \in Gateway : LocalWrite(g)
  BY <1>4, <1>9 DEF Gossip!Next, Gateway
<1>10. ASSUME NEW d \in Direction, Replicate(d)
       PROVE  [Gossip!Next]_(Gossip!gossipVars)
  <2>1. CASE Skip(d)
    BY <1>3, <2>1 DEF Skip
  <2>2. CASE Send(d)
    BY <1>5, <2>2, DirectionEnds DEF Gossip!Next
  <2>3. ASSUME NEW r \in inflight[d], Cancel(d, r) \/ Reject(d, r)
        PROVE  Gossip!Next
    BY <1>6, <2>3 DEF Gossip!Next
  <2>4. ASSUME NEW r \in inflight[d], NEW new, Installs(d, r, new)
        PROVE  Gossip!Next
    BY <1>7, <2>4, DirectionEnds DEF Gossip!Next
  <2> QED
    BY <1>10, <2>1, <2>2, <2>3, <2>4, ReplicateCases
<1> QED
  BY <1>8, <1>9, <1>10 DEF Next

\* Replication implements the gossip of version vectors: under the same
\* hypotheses, no conflict handling, lateness or rejection does to a vector
\* what a delayed, repeated or lost copy of another's would not do.
THEOREM ReplicationGossips ==
    ASSUME TwoGateways, RecheckTombstonePath \/ NoDeletions
    PROVE  Spec => ImplementsGossip
<1>1. Init => Gossip!Init
  <2> SUFFICES ASSUME Init
               PROVE  Gossip!Init
    OBVIOUS
  <2>1. TypeOK
    BY InitHolds
  <2>2. \A g, h \in Source : knowOf[g] = knowOf[h]
    BY DEF Init, knowOf, Gateway
  <2>3. wireOf = {}
    BY WireOfNow DEF Init
  <2> QED
    BY <2>1, <2>2, <2>3, KnowOf DEF Gossip!Init
<1>2. Init => GossipHolds
  BY GossipStep
<1>3. GossipHolds /\ [Next]_vars => GossipHolds'
  BY GossipStep
<1>4. GossipHolds /\ GossipHolds' /\ [Next]_vars =>
         [Gossip!Next]_(Gossip!gossipVars)
  BY StepGossips DEF GossipHolds
<1> QED
  BY <1>1, <1>2, <1>3, <1>4, PTL DEF Spec, ImplementsGossip, Gossip!Spec

-----------------------------------------------------------------------------
(* Convergence, without deletions.  Every copy has the current version of   *)
(* some write, its stamp.  When the feeds are at rest each gateway knows    *)
(* the current version of the other; that they then serve one version       *)
(* follows from how conflicts were decided on the way: a copy that knows a  *)
(* version of the other gateway and does not serve it serves one that beats *)
(* it, and of two versions at most one beats the other.                     *)

Stamps == {InitialDoc} \cup AllWrites

\* Every resolver pulls to h.
OneResolver(h) == \A d \in Direction : d.resolver => d.to = h

Home == CHOOSE h \in Source : OneResolver(h)

\* A tie, equal numbers stamped by two gateways, goes to the local side.  It
\* is decided once and for all when one gateway resolves all conflicts; and
\* ties need not be decided when there are none.
NoTies ==
    \A w, u \in AllWrites :
        w.hlv.src # u.hlv.src => w.hlv.ver # u.hlv.ver

TiesSettled == (\E h \in Source : OneResolver(h)) \/ NoTies

Higher(w, u) == w.ver > u.ver \/ (w.ver = u.ver /\ w.src = Home)

\* w was made with u in view, or neither was and w has the higher number.
Beats(w, u) ==
    \/ DominatesCV(w, u)
    \/ ~ DominatesCV(u, w) /\ Higher(w, u)

KnownStart == \A x \in Copies : Value(x.hlv, Author) >= 5

CopiesStamped == \A x \in Copies : \E w \in Stamps : SameCV(w.hlv, x.hlv)

\* The writes of one gateway know more and more.
StampsOrdered ==
    \A u, w \in Stamps :
        u.hlv.src = w.hlv.src /\ u.hlv.ver <= w.hlv.ver =>
            KnowsAtLeast(w.hlv, u.hlv)

OwnerKnowsStamps == \A u \in Stamps : KnowsAtLeast(docs[u.hlv.src].hlv, u.hlv)

CopiesKnowStamps ==
    \A x \in Copies : \A w \in Stamps :
        SameCV(w.hlv, x.hlv) => KnowsAtLeast(x.hlv, w.hlv)

StampsAcyclic ==
    \A u, w \in Stamps : u.hlv.src # w.hlv.src =>
        ~ (DominatesCV(u.hlv, w.hlv) /\ DominatesCV(w.hlv, u.hlv))

HeldBeats ==
    \A x \in Copies : \A u, w \in Stamps :
        /\ SameCV(w.hlv, x.hlv)
        /\ u.hlv.src # x.hlv.src /\ DominatesCV(x.hlv, u.hlv)
        => Beats(w.hlv, u.hlv)

StampInv ==
    /\ KnownStart
    /\ CopiesStamped
    /\ StampsOrdered
    /\ OwnerKnowsStamps
    /\ CopiesKnowStamps
    /\ StampsAcyclic
    /\ TiesSettled => HeldBeats

\* The numbers of a stamp.
LEMMA StampNumbers ==
    ASSUME TypeOK, NEW u \in Stamps
    PROVE  /\ u \in Doc /\ u.hlv \in HLVs /\ u.hlv.src \in Source
           /\ u.hlv.ver \in Nat
           /\ \A s \in Source : Value(u.hlv, s) \in Nat
           /\ Value(u.hlv, u.hlv.src) = u.hlv.ver
<1>1. InitialDoc \in Doc
  BY InitialType, SMT DEF InitialDoc, Doc, HLVs, Vector
<1>2. ASSUME u \in AllWrites
      PROVE  u \in Doc
  <2>0. PICK g \in Gateway : u \in WritesOf(g)
    BY <1>2, Zenon DEF AllWrites
  <2>1. PICK i \in DOMAIN writes[g] : u = writes[g][i]
    BY <2>0 DEF WritesOf
  <2>2. writes[g] \in Seq(Doc)
    BY DEF TypeOK
  <2> QED
    BY <2>1, <2>2, SMT
<1>3. u \in Doc
  BY <1>1, <1>2 DEF Stamps
<1>4. u.hlv \in HLVs
  BY <1>3 DEF Doc
<1>5. u.hlv.src \in Source /\ u.hlv.ver \in Nat
  BY <1>4 DEF HLVs
<1> QED
  BY <1>3, <1>4, <1>5, ValueType DEF Value

\* A local write adds its stamp.
LEMMA StampsAfter ==
    ASSUME TypeOK, NEW g \in Gateway, NEW new,
           writes' = [writes EXCEPT ![g] = Append(@, new)]
    PROVE  AllWrites' = AllWrites \cup {new} /\ Stamps' = Stamps \cup {new}
<1>1. \A h \in Gateway : writes[h] \in Seq(Doc)
  BY DEF TypeOK
<1>2. \A h \in Gateway : writes'[h] = IF h = g THEN Append(writes[g], new)
                                               ELSE writes[h]
  BY DEF TypeOK
<1>3. /\ DOMAIN Append(writes[g], new) =
            DOMAIN writes[g] \cup {Len(writes[g]) + 1}
      /\ \A i \in DOMAIN writes[g] : Append(writes[g], new)[i] = writes[g][i]
      /\ Append(writes[g], new)[Len(writes[g]) + 1] = new
  BY <1>1, SMT
<1>4. \A x : x \in WritesOf(g)' <=> x \in WritesOf(g) \/ x = new
  <2>1. WritesOf(g)' = {Append(writes[g], new)[i] :
                           i \in DOMAIN writes[g] \cup {Len(writes[g]) + 1}}
    BY <1>2, <1>3 DEF WritesOf
  <2> QED
    BY <1>3, <2>1 DEF WritesOf
<1>5. \A h \in Gateway : h # g => WritesOf(h)' = WritesOf(h)
  BY <1>2 DEF WritesOf
<1>6. \A x : x \in AllWrites <=> \E h \in Gateway : x \in WritesOf(h)
  BY Zenon DEF AllWrites
<1>7. \A x : x \in AllWrites' <=> \E h \in Gateway : x \in WritesOf(h)'
  BY Zenon DEF AllWrites
<1>8. AllWrites' = AllWrites \cup {new}
  BY <1>4, <1>5, <1>6, <1>7
<1> QED
  BY <1>8 DEF Stamps, InitialDoc

\* A step that writes nothing leaves the stamps.
LEMMA StampsSame == writes' = writes => AllWrites' = AllWrites /\ Stamps' = Stamps
BY DEF AllWrites, WritesOf, Stamps, InitialDoc

\* Writes are never taken back, so ties that are settled were settled.
LEMMA TiesBefore ==
    ASSUME TypeOK, VersionInv, [Next]_vars
    PROVE  AllWrites \subseteq AllWrites' /\ (TiesSettled' => TiesSettled)
<1>1. AllWrites \subseteq AllWrites'
  <2>1. CASE writes' = writes
    BY <2>1, StampsSame
  <2>2. ASSUME NEW g \in Gateway, LocalWrite(g)
        PROVE  AllWrites \subseteq AllWrites'
    <3>1. PICK event \in Program[g][pcs[g] + 1], new \in Doc :
             writes' = [writes EXCEPT ![g] = Append(@, new)]
      BY <2>2, LocalWriteEffect
    <3>2. AllWrites' = AllWrites \cup {new}
      BY <3>1, StampsAfter
    <3> QED
      BY <3>2
  <2>3. ASSUME NEW d \in Direction, Replicate(d)
        PROVE  writes' = writes
    BY <2>3, ReplicateCases, DropEffect, InstallEffect DEF Skip, Send
  <2> QED
    BY <2>1, <2>2, <2>3 DEF Next, vars
<1>2. NoTies' => NoTies
  BY <1>1 DEF NoTies
<1> QED
  BY <1>1, <1>2 DEF TiesSettled, OneResolver

\* No stamp knows more of a source than the source's own copy.
LEMMA StampsUnderOwn ==
    ASSUME TypeOK, VersionInv, OwnerKnowsStamps, NEW u \in Stamps,
           NEW s \in Source
    PROVE  Value(u.hlv, s) <= Value(docs[s].hlv, s)
<1>1. u.hlv.src \in Source /\ Value(u.hlv, s) \in Nat
  BY StampNumbers
<1>2. docs[u.hlv.src] \in Copies /\ docs[s] \in Copies
  BY <1>1, CopiesAreDocs DEF Gateway
<1>3. /\ Value(docs[u.hlv.src].hlv, s) \in Nat
      /\ Value(docs[s].hlv, s) \in Nat
  BY <1>2, CopyNumbers
<1>4. Value(docs[u.hlv.src].hlv, s) >= Value(u.hlv, s)
  BY DEF OwnerKnowsStamps, KnowsAtLeast
<1>5. Value(docs[u.hlv.src].hlv, s) <= Value(docs[s].hlv, s)
  BY <1>2 DEF VersionInv, OwnVersionsAreNewest
<1> QED
  BY <1>1, <1>3, <1>4, <1>5, SMT

\* A later write of the same gateway beats what the earlier one beats.
LEMMA LaterBeats ==
    ASSUME TypeOK, StampsOrdered,
           NEW u \in Stamps, NEW v \in Stamps, NEW w \in Stamps,
           v.hlv.src = w.hlv.src, v.hlv.ver <= w.hlv.ver, Beats(v.hlv, u.hlv)
    PROVE  Beats(w.hlv, u.hlv)
<1>1. /\ u.hlv.ver \in Nat /\ v.hlv.ver \in Nat /\ w.hlv.ver \in Nat
      /\ u.hlv.src \in Source /\ w.hlv.src \in Source
      /\ \A s \in Source : /\ Value(u.hlv, s) \in Nat
                           /\ Value(v.hlv, s) \in Nat
                           /\ Value(w.hlv, s) \in Nat
  BY StampNumbers
<1>2. KnowsAtLeast(w.hlv, v.hlv)
  BY DEF StampsOrdered
<1>3. CASE DominatesCV(v.hlv, u.hlv)
  <2>1. Value(v.hlv, u.hlv.src) >= u.hlv.ver
    BY <1>3 DEF DominatesCV
  <2>2. Value(w.hlv, u.hlv.src) >= Value(v.hlv, u.hlv.src)
    BY <1>1, <1>2 DEF KnowsAtLeast
  <2>3. Value(w.hlv, u.hlv.src) >= u.hlv.ver
    BY <1>1, <2>1, <2>2, SMT
  <2> QED
    BY <2>3 DEF Beats, DominatesCV
<1>4. CASE ~ DominatesCV(u.hlv, v.hlv) /\ Higher(v.hlv, u.hlv)
  <2>1. ~ (Value(u.hlv, w.hlv.src) >= v.hlv.ver)
    BY <1>4 DEF DominatesCV
  <2>2. ~ (Value(u.hlv, w.hlv.src) >= w.hlv.ver)
    BY <1>1, <2>1, SMT
  <2>3. Higher(w.hlv, u.hlv)
    BY <1>1, <1>4, SMT DEF Higher
  <2> QED
    BY <2>2, <2>3 DEF Beats, DominatesCV
<1> QED
  BY <1>3, <1>4 DEF Beats

\* A local write keeps the stamps' order: the new one was made with its
\* gateway's copy in view, and nothing has seen it.
LEMMA LocalWriteStamps ==
    ASSUME TwoGateways, TypeOK, VersionInv, StampInv, TypeOK', VersionInv',
           NEW g \in Gateway, LocalWrite(g)
    PROVE  StampInv'
<1>0. g \in Source /\ Gateway = Source
  BY DEF Gateway
<1>1. PICK event \in Program[g][pcs[g] + 1], n \in Doc :
         /\ n.hlv.src = g
         /\ n.hlv.ver \in Nat
         /\ n.hlv.ver > Value(docs[g].hlv, g)
         /\ \A s \in Source : Value(n.hlv, s) =
               IF s = g THEN n.hlv.ver ELSE Value(docs[g].hlv, s)
         /\ docs'[g] = n
         /\ \A h \in Gateway : h # g => docs'[h] = docs[h]
         /\ writes' = [writes EXCEPT ![g] = Append(@, n)]
         /\ inflight' = inflight
  BY LocalWriteEffect
<1>2. Stamps' = Stamps \cup {n} /\ AllWrites' = AllWrites \cup {n}
  BY <1>1, StampsAfter
<1>3. \A x \in Copies' : x \in Copies \/ x = n
  BY <1>1, CopiesAfter, CopiesAreDocs
<1>4. docs[g] \in Copies /\ \A s \in Source : Value(docs[g].hlv, s) \in Nat
  BY CopiesAreDocs, CopyNumbers
<1>5. \A s \in Source : Value(n.hlv, s) \in Nat
  BY <1>1, <1>4
<1>6. KnowsAtLeast(n.hlv, docs[g].hlv) /\ KnowsAtLeast(n.hlv, n.hlv)
  BY <1>1, <1>4, <1>5, SMT DEF KnowsAtLeast
\* Nothing has seen the new version, and it is not that of anything.
<1>7. \A x \in Copies : /\ ~ DominatesCV(x.hlv, n.hlv)
                        /\ ~ SameCV(n.hlv, x.hlv)
  <2> SUFFICES ASSUME NEW x \in Copies
               PROVE  ~ DominatesCV(x.hlv, n.hlv) /\ ~ SameCV(n.hlv, x.hlv)
    OBVIOUS
  <2>1. Value(x.hlv, g) <= Value(docs[g].hlv, g)
    BY <1>0 DEF VersionInv, OwnVersionsAreNewest
  <2>2. Value(x.hlv, g) \in Nat /\ Value(x.hlv, x.hlv.src) = x.hlv.ver
    BY <1>0, CopyNumbers
  <2>3. ~ (Value(x.hlv, g) >= n.hlv.ver)
    BY <1>0, <1>1, <1>4, <2>1, <2>2, SMT
  <2>4. ~ SameCV(n.hlv, x.hlv)
    BY <1>1, <2>2, <2>3, SMT DEF SameCV
  <2> QED
    BY <1>1, <2>3, <2>4 DEF DominatesCV
<1>8. \A u \in Stamps : /\ ~ DominatesCV(u.hlv, n.hlv)
                        /\ u.hlv.src = g => u.hlv.ver < n.hlv.ver
  <2> SUFFICES ASSUME NEW u \in Stamps
               PROVE  /\ ~ DominatesCV(u.hlv, n.hlv)
                      /\ u.hlv.src = g => u.hlv.ver < n.hlv.ver
    OBVIOUS
  <2>1. Value(u.hlv, g) <= Value(docs[g].hlv, g)
    BY <1>0, StampsUnderOwn DEF StampInv
  <2>2. /\ Value(u.hlv, g) \in Nat /\ u.hlv.ver \in Nat
        /\ Value(u.hlv, u.hlv.src) = u.hlv.ver
    BY <1>0, StampNumbers
  <2>3. ~ (Value(u.hlv, g) >= n.hlv.ver)
    BY <1>0, <1>1, <1>4, <2>1, <2>2, SMT
  <2> QED
    BY <1>1, <2>2, <2>3, SMT DEF DominatesCV
<1>9. KnownStart'
  <2>1. Value(n.hlv, Author) >= 5
    <3>1. Author \in Source /\ Value(docs[g].hlv, Author) >= 5
      BY <1>4, InitialType DEF StampInv, KnownStart
    <3>2. Value(n.hlv, Author) >= Value(docs[g].hlv, Author)
      BY <1>6, <3>1 DEF KnowsAtLeast
    <3> QED
      BY <1>4, <1>5, <3>1, <3>2, SMT
  <2> QED
    BY <1>3, <2>1 DEF StampInv, KnownStart
<1>10. CopiesStamped'
  <2>1. SameCV(n.hlv, n.hlv)
    BY DEF SameCV
  <2>2. \A x \in Copies' : \E w \in Stamps' : SameCV(w.hlv, x.hlv)
    BY <1>2, <1>3, <2>1 DEF StampInv, CopiesStamped
  <2> QED
    BY <2>2 DEF CopiesStamped, SameCV
<1>11. OwnerKnowsStamps'
  <2> SUFFICES ASSUME NEW u \in Stamps'
               PROVE  KnowsAtLeast(docs'[u.hlv.src].hlv, u.hlv)
    BY DEF OwnerKnowsStamps, KnowsAtLeast, Value
  <2>1. CASE u = n
    BY <1>1, <1>6, <2>1
  <2>2. CASE u \in Stamps /\ u.hlv.src # g
    <3>1. u.hlv.src \in Gateway
      BY <1>0, <2>2, StampNumbers
    <3> QED
      BY <1>1, <2>2, <3>1 DEF StampInv, OwnerKnowsStamps
  <2>3. CASE u \in Stamps /\ u.hlv.src = g
    <3>1. KnowsAtLeast(docs[g].hlv, u.hlv)
      BY <2>3 DEF StampInv, OwnerKnowsStamps
    <3>2. \A s \in Source : Value(u.hlv, s) \in Nat
      BY <2>3, StampNumbers
    <3> QED
      BY <1>1, <1>4, <1>5, <1>6, <2>3, <3>1, <3>2, KnowsTrans
  <2> QED
    BY <1>2, <2>1, <2>2, <2>3
<1>12. StampsOrdered'
  <2> SUFFICES ASSUME NEW u \in Stamps', NEW w \in Stamps',
                      u.hlv.src = w.hlv.src, u.hlv.ver <= w.hlv.ver
               PROVE  KnowsAtLeast(w.hlv, u.hlv)
    BY DEF StampsOrdered, KnowsAtLeast, Value
  <2>1. CASE u \in Stamps /\ w \in Stamps
    BY <2>1 DEF StampInv, StampsOrdered
  <2>2. CASE u = n /\ w = n
    BY <1>6, <2>2
  <2>3. CASE u = n /\ w \in Stamps
    <3>1. w.hlv.ver \in Nat /\ w.hlv.ver < n.hlv.ver
      BY <1>1, <1>8, <2>3, StampNumbers
    <3> QED
      BY <1>1, <2>3, <3>1, SMT
  <2>4. CASE u \in Stamps /\ w = n
    <3>1. KnowsAtLeast(docs[g].hlv, u.hlv)
      BY <1>1, <2>4 DEF StampInv, OwnerKnowsStamps
    <3>2. \A s \in Source : Value(u.hlv, s) \in Nat
      BY <2>4, StampNumbers
    <3> QED
      BY <1>4, <1>5, <1>6, <2>4, <3>1, <3>2, KnowsTrans
  <2> QED
    BY <1>2, <2>1, <2>2, <2>3, <2>4
<1>13. CopiesKnowStamps'
  <2> SUFFICES ASSUME NEW x \in Copies', NEW w \in Stamps', SameCV(w.hlv, x.hlv)
               PROVE  KnowsAtLeast(x.hlv, w.hlv)
    BY DEF CopiesKnowStamps, KnowsAtLeast, Value, SameCV
  <2>1. CASE x \in Copies /\ w \in Stamps
    BY <2>1 DEF StampInv, CopiesKnowStamps
  <2>2. CASE x = n /\ w = n
    BY <1>6, <2>2
  <2>3. CASE x = n /\ w \in Stamps
    <3>1. w.hlv.ver \in Nat /\ (w.hlv.src = g => w.hlv.ver < n.hlv.ver)
      BY <1>8, <2>3, StampNumbers
    <3> QED
      BY <1>1, <2>3, <3>1, SMT DEF SameCV
  <2>4. CASE x \in Copies /\ w = n
    BY <1>7, <2>4
  <2> QED
    BY <1>2, <1>3, <2>1, <2>2, <2>3, <2>4
<1>14. StampsAcyclic'
  <2> SUFFICES ASSUME NEW u \in Stamps', NEW w \in Stamps',
                      u.hlv.src # w.hlv.src,
                      DominatesCV(u.hlv, w.hlv), DominatesCV(w.hlv, u.hlv)
               PROVE  FALSE
    BY DEF StampsAcyclic, DominatesCV, Value
  <2> QED
    BY <1>2, <1>8 DEF StampInv, StampsAcyclic
<1>15. ASSUME TiesSettled
       PROVE  HeldBeats'
  <2> SUFFICES ASSUME NEW x \in Copies', NEW u \in Stamps', NEW w \in Stamps',
                      SameCV(w.hlv, x.hlv), u.hlv.src # x.hlv.src,
                      DominatesCV(x.hlv, u.hlv)
               PROVE  Beats(w.hlv, u.hlv)
    BY DEF HeldBeats, DominatesCV, Value, SameCV, Beats, Higher, Home,
       OneResolver
  <2>1. CASE x = n
    <3>1. CASE w = n
      BY <2>1, <3>1 DEF Beats
    <3>2. CASE w \in Stamps
      <4>1. w.hlv.ver \in Nat /\ (w.hlv.src = g => w.hlv.ver < n.hlv.ver)
        BY <1>8, <3>2, StampNumbers
      <4> QED
        BY <1>1, <2>1, <4>1, SMT DEF SameCV
    <3> QED
      BY <1>2, <3>1, <3>2
  <2>2. CASE x \in Copies
    <3>1. u \in Stamps /\ w \in Stamps
      BY <1>2, <1>7, <2>2
    <3> QED
      BY <1>15, <2>2, <3>1 DEF StampInv, HeldBeats
  <2> QED
    BY <1>3, <2>1, <2>2
<1>16. TiesSettled' => TiesSettled
  BY TiesBefore DEF Next
<1> QED
  BY <1>9, <1>10, <1>11, <1>12, <1>13, <1>14, <1>15, <1>16 DEF StampInv

\* In a conflict between two gateways each serves a version of its own.
LEMMA ConflictEnds ==
    ASSUME TwoGateways, TypeOK, VersionInv,
           NEW d \in Direction, NEW r \in inflight[d],
           Conflicts(docs[d.to], r.doc)
    PROVE  /\ docs[d.to].hlv.src = d.to
           /\ ~ (Value(docs[d.to].hlv, d.from) >= r.doc.hlv.ver)
           /\ ~ (Value(r.doc.hlv, d.to) >= docs[d.to].hlv.ver)
<1>1. /\ r.doc.hlv.src = d.from
      /\ docs[d.to].hlv.src \in {d.from, d.to}
      /\ docs[d.to].hlv.ver \in Nat /\ r.doc.hlv.ver \in Nat
      /\ Value(docs[d.to].hlv, docs[d.to].hlv.src) = docs[d.to].hlv.ver
      /\ Value(r.doc.hlv, d.from) = r.doc.hlv.ver
  BY MergeFacts
<1>2. /\ ~ DominatesCV(docs[d.to].hlv, r.doc.hlv)
      /\ ~ DominatesCV(r.doc.hlv, docs[d.to].hlv)
  BY ConflictUnseen
<1>3. docs[d.to].hlv.src # d.from
  <2> SUFFICES ASSUME docs[d.to].hlv.src = d.from
               PROVE  FALSE
    OBVIOUS
  <2>1. ~ (docs[d.to].hlv.ver >= r.doc.hlv.ver)
    BY <1>1, <1>2 DEF DominatesCV
  <2>2. ~ (r.doc.hlv.ver >= docs[d.to].hlv.ver)
    BY <1>1, <1>2 DEF DominatesCV
  <2> QED
    BY <1>1, <2>1, <2>2, SMT
<1> QED
  BY <1>1, <1>2, <1>3 DEF DominatesCV

\* A copy with the stamp w knows all that an older stamp u of w's gateway
\* knew, and so a version that the copy has not seen u has not seen.
LEMMA OlderStampUnseen ==
    ASSUME TypeOK, VersionInv, StampInv, NEW x \in Copies,
           NEW u \in Stamps, u.hlv.src = x.hlv.src, u.hlv.ver <= x.hlv.ver,
           NEW s \in Source, NEW v \in Nat, ~ (Value(x.hlv, s) >= v)
    PROVE  ~ (Value(u.hlv, s) >= v)
<1>1. PICK z \in Stamps : SameCV(z.hlv, x.hlv)
  BY DEF StampInv, CopiesStamped
<1>2. KnowsAtLeast(z.hlv, u.hlv)
  BY <1>1 DEF StampInv, StampsOrdered, SameCV
<1>3. KnowsAtLeast(x.hlv, z.hlv)
  BY <1>1 DEF StampInv, CopiesKnowStamps
<1>4. Value(x.hlv, s) >= Value(z.hlv, s) /\ Value(z.hlv, s) >= Value(u.hlv, s)
  BY <1>2, <1>3 DEF KnowsAtLeast
<1>5. /\ Value(x.hlv, s) \in Nat /\ Value(z.hlv, s) \in Nat
      /\ Value(u.hlv, s) \in Nat
  BY CopyNumbers, StampNumbers
<1> QED
  BY <1>4, <1>5, SMT

\* What an install leaves current beats every version of the other gateway
\* that the new copy knows.
LEMMA InstallBeats ==
    ASSUME TwoGateways, TypeOK, VersionInv, GossipInv, NoTombstone,
           StampInv, TiesSettled,
           NEW d \in Direction, NEW r \in inflight[d], NEW new,
           Installs(d, r, new),
           NEW u \in Stamps, NEW w \in Stamps,
           SameCV(w.hlv, new.hlv), u.hlv.src # new.hlv.src,
           DominatesCV(new.hlv, u.hlv)
    PROVE  Beats(w.hlv, u.hlv)
<1> DEFINE y == docs[d.to].hlv
           i == r.doc.hlv
<1>0. /\ d.from \in Source /\ d.to \in Source /\ d.from # d.to
      /\ d.resolver \in BOOLEAN
  BY DirectionEnds
<1>1. /\ docs[d.to] \in Copies /\ r.doc \in Copies
      /\ i.src = d.from /\ y.src \in {d.from, d.to}
      /\ y.ver \in Nat /\ i.ver \in Nat
      /\ \A s \in Source : Value(y, s) \in Nat /\ Value(i, s) \in Nat
      /\ Value(y, y.src) = y.ver /\ Value(i, d.from) = i.ver
  BY MergeFacts
<1>2. /\ u.hlv.src \in Source /\ w.hlv.src \in Source
      /\ u.hlv.ver \in Nat /\ w.hlv.ver \in Nat
      /\ \A s \in Source : Value(u.hlv, s) \in Nat /\ Value(w.hlv, s) \in Nat
  BY StampNumbers
<1>3. HeldBeats
  BY DEF StampInv
<1>4. Value(y, u.hlv.src) >= u.hlv.ver \/ Value(i, u.hlv.src) >= u.hlv.ver
  <2>1. Value(new.hlv, u.hlv.src) =
            Larger(Value(y, u.hlv.src), Value(i, u.hlv.src))
    BY <1>2, InstallIsJoin
  <2>2. Value(new.hlv, u.hlv.src) >= u.hlv.ver
    BY DEF DominatesCV
  <2> QED
    BY <2>1, <2>2, SMT DEF Larger
<1>5. ~ IsTombstone(docs[d.to]) /\ ~ IsTombstone(r.doc)
  BY <1>1 DEF NoTombstone
<1>6. ASSUME Conflicts(docs[d.to], r.doc)
      PROVE  /\ y.src = d.to
             /\ ~ (Value(y, d.from) >= i.ver) /\ ~ (Value(i, d.to) >= y.ver)
             /\ Value(y, d.to) = y.ver
  <2>1. /\ docs[d.to].hlv.src = d.to
        /\ ~ (Value(docs[d.to].hlv, d.from) >= r.doc.hlv.ver)
        /\ ~ (Value(r.doc.hlv, d.to) >= docs[d.to].hlv.ver)
    BY <1>6, ConflictEnds
  <2> QED
    BY <1>1, <2>1
<1>7. RemoteWins(docs[d.to], r.doc) <=> i.ver > y.ver
  BY <1>5 DEF RemoteWins, IsTombstone
\* The incoming revision is installed.
<1>8. ASSUME SameCV(new.hlv, i),
             \/ TakesUpdate(docs[d.to], r.doc)
             \/ Conflicts(docs[d.to], r.doc) /\ i.ver > y.ver
      PROVE  Beats(w.hlv, u.hlv)
  <2>1. /\ w.hlv.src = d.from /\ w.hlv.ver = i.ver /\ u.hlv.src = d.to
        /\ SameCV(w.hlv, i)
    BY <1>0, <1>1, <1>2, <1>8, EitherEnd DEF SameCV
  <2>2. CASE Value(i, d.to) >= u.hlv.ver
    BY <1>0, <1>1, <1>3, <2>1, <2>2 DEF HeldBeats, DominatesCV
  <2>3. CASE Conflicts(docs[d.to], r.doc) /\ i.ver > y.ver
             /\ Value(y, d.to) >= u.hlv.ver
    <3>1. y.src = d.to /\ ~ (Value(y, d.from) >= i.ver) /\ u.hlv.ver <= y.ver
      BY <1>6, <2>3
    <3>2. ~ (Value(u.hlv, d.from) >= i.ver)
      BY <1>0, <1>1, <2>1, <3>1, OlderStampUnseen
    <3>3. w.hlv.ver > u.hlv.ver
      BY <1>1, <1>2, <2>1, <2>3, <3>1, SMT
    <3> QED
      BY <2>1, <3>2, <3>3 DEF Beats, Higher, DominatesCV
  <2>4. CASE TakesUpdate(docs[d.to], r.doc) /\ ~ (Value(i, d.to) >= u.hlv.ver)
             /\ Value(y, d.to) >= u.hlv.ver
    <3>1. Value(i, y.src) >= y.ver
      BY <2>4 DEF TakesUpdate, Supersedes, DominatesCV
    <3>2. y.src = d.from
      <4>1. ASSUME y.src = d.to
            PROVE  FALSE
        <5> HIDE DEF y, i
        <5> QED
          BY <1>0, <1>1, <1>2, <2>4, <3>1, <4>1, SMT
      <4> QED
        BY <1>1, <4>1
    <3>3. PICK v \in Stamps : SameCV(v.hlv, y)
      BY <1>1 DEF StampInv, CopiesStamped
    <3>4. Beats(v.hlv, u.hlv)
      BY <1>0, <1>1, <1>3, <2>1, <2>4, <3>2, <3>3 DEF HeldBeats, DominatesCV
    <3>5. v.hlv.src = w.hlv.src /\ v.hlv.ver <= w.hlv.ver
      BY <1>1, <2>1, <3>1, <3>2, <3>3 DEF SameCV
    <3> QED
      BY <3>4, <3>5, LaterBeats DEF StampInv
  <2> QED
    BY <1>4, <1>8, <2>1, <2>2, <2>3, <2>4
\* The local copy wins.
<1>9. ASSUME SameCV(new.hlv, y), Conflicts(docs[d.to], r.doc), d.resolver,
             ~ (i.ver > y.ver)
      PROVE  Beats(w.hlv, u.hlv)
  <2>1. /\ y.src = d.to
        /\ ~ (Value(y, d.from) >= i.ver) /\ ~ (Value(i, d.to) >= y.ver)
        /\ Value(y, d.to) = y.ver
    BY <1>6, <1>9
  <2>2. /\ w.hlv.src = d.to /\ w.hlv.ver = y.ver /\ u.hlv.src = d.from
        /\ SameCV(w.hlv, y)
    BY <1>0, <1>2, <1>9, <2>1, EitherEnd DEF SameCV
  <2>3. CASE Value(y, d.from) >= u.hlv.ver
    BY <1>0, <1>1, <1>3, <2>1, <2>2, <2>3 DEF HeldBeats, DominatesCV
  <2>4. CASE ~ (Value(y, d.from) >= u.hlv.ver) /\ i.ver >= u.hlv.ver
    <3>1. ~ (Value(u.hlv, d.to) >= y.ver)
      BY <1>0, <1>1, <2>1, <2>2, <2>4, OlderStampUnseen
    <3>2. ~ DominatesCV(u.hlv, w.hlv)
      BY <2>2, <3>1 DEF DominatesCV
    <3>3. w.hlv.ver >= u.hlv.ver
      BY <1>1, <1>2, <1>9, <2>2, <2>4, SMT
    <3>4. CASE w.hlv.ver = u.hlv.ver
      <4>1. u \in AllWrites
        <5>1. ASSUME u = InitialDoc
              PROVE  FALSE
          <6>1. u.hlv.src = Author /\ u.hlv.ver = 5
            BY <5>1 DEF InitialDoc
          <6>2. Value(y, Author) >= 5
            BY <1>1 DEF StampInv, KnownStart
          <6> QED
            BY <2>2, <2>4, <6>1, <6>2
        <5> QED
          BY <5>1 DEF Stamps
      <4>2. w \in AllWrites
        <5>1. ASSUME w = InitialDoc
              PROVE  FALSE
          <6>1. w.hlv.src = Author /\ w.hlv.ver = 5
            BY <5>1 DEF InitialDoc
          <6>2. Value(i, Author) >= 5
            BY <1>1 DEF StampInv, KnownStart
          <6> QED
            BY <2>1, <2>2, <6>1, <6>2
        <5> QED
          BY <5>1 DEF Stamps
      <4>3. ~ NoTies
        BY <1>0, <2>2, <3>4, <4>1, <4>2 DEF NoTies
      <4>4. \E h \in Source : OneResolver(h)
        BY <4>3 DEF TiesSettled
      <4>5. OneResolver(Home)
        BY <4>4 DEF Home
      <4>6. d.to = Home
        BY <1>9, <4>5 DEF OneResolver
      <4> QED
        BY <2>2, <3>2, <3>4, <4>6 DEF Beats, Higher
    <3>5. CASE w.hlv.ver # u.hlv.ver
      <4>1. w.hlv.ver > u.hlv.ver
        BY <1>2, <3>3, <3>5, SMT
      <4> QED
        BY <3>2, <4>1 DEF Beats, Higher
    <3> QED
      BY <3>4, <3>5
  <2> QED
    BY <1>1, <1>4, <2>2, <2>3, <2>4
<1>10. \/ /\ SameCV(new.hlv, r.doc.hlv)
          /\ \/ TakesTombstone(docs[d.to], r.doc)
             \/ TakesUpdate(docs[d.to], r.doc)
             \/ Conflicts(docs[d.to], r.doc) /\ RemoteWins(docs[d.to], r.doc)
       \/ /\ SameCV(new.hlv, docs[d.to].hlv)
          /\ Conflicts(docs[d.to], r.doc) /\ d.resolver
          /\ ~ RemoteWins(docs[d.to], r.doc)
  BY InstallEffect
<1>11. ~ TakesTombstone(docs[d.to], r.doc)
  BY <1>5 DEF TakesTombstone, BothTombstones
<1> QED
  BY <1>7, <1>8, <1>9, <1>10, <1>11

LEMMA InstallStamps ==
    ASSUME TwoGateways, TypeOK, VersionInv, GossipInv, NoTombstone, StampInv,
           TypeOK', VersionInv',
           NEW d \in Direction, NEW r \in inflight[d], NEW new,
           Installs(d, r, new)
    PROVE  StampInv'
<1>0. /\ d.to \in Gateway /\ d.to \in Source /\ Gateway = Source
      /\ Author \in Source
  BY DirectionEnds, InitialType DEF Gateway
<1>1. /\ new \in Doc
      /\ docs'[d.to] = new
      /\ \A h \in Gateway : h # d.to => docs'[h] = docs[h]
      /\ writes' = writes
      /\ \A e \in Direction : inflight'[e] \subseteq inflight[e]
      /\ SameCV(new.hlv, r.doc.hlv) \/ SameCV(new.hlv, docs[d.to].hlv)
  BY InstallEffect
<1>2. docs[d.to] \in Copies /\ r.doc \in Copies
  BY <1>0, CopiesAreDocs
<1>3. \A s \in Source : /\ Value(docs[d.to].hlv, s) \in Nat
                        /\ Value(r.doc.hlv, s) \in Nat
  BY <1>2, CopyNumbers
<1>4. \A s \in Source : Value(new.hlv, s) =
          Larger(Value(docs[d.to].hlv, s), Value(r.doc.hlv, s))
  BY InstallIsJoin
<1>5. \A s \in Source : /\ Value(new.hlv, s) \in Nat
                        /\ Value(new.hlv, s) >= Value(docs[d.to].hlv, s)
                        /\ Value(new.hlv, s) >= Value(r.doc.hlv, s)
  BY <1>3, <1>4, SMT DEF Larger
<1>6. /\ KnowsAtLeast(new.hlv, docs[d.to].hlv)
      /\ KnowsAtLeast(new.hlv, r.doc.hlv)
  BY <1>5 DEF KnowsAtLeast
<1>7. Stamps' = Stamps
  BY <1>1, StampsSame
<1>8. \A x \in Copies' : x \in Copies \/ x = new
  BY <1>0, <1>1, CopiesAfter, CopiesAreDocs
<1>9. KnownStart'
  <2>1. Value(new.hlv, Author) >= 5
    <3>1. Value(docs[d.to].hlv, Author) >= 5
      BY <1>2 DEF StampInv, KnownStart
    <3> QED
      BY <1>0, <1>3, <1>5, <3>1, SMT
  <2> QED
    BY <1>8, <2>1 DEF StampInv, KnownStart
<1>10. CopiesStamped'
  <2>1. \E w \in Stamps : SameCV(w.hlv, new.hlv)
    BY <1>1, <1>2 DEF StampInv, CopiesStamped, SameCV
  <2>2. \A x \in Copies' : \E w \in Stamps' : SameCV(w.hlv, x.hlv)
    BY <1>7, <1>8, <2>1 DEF StampInv, CopiesStamped
  <2> QED
    BY <2>2 DEF CopiesStamped, SameCV
<1>11. StampsOrdered' /\ StampsAcyclic'
  BY <1>7 DEF StampInv, StampsOrdered, StampsAcyclic, KnowsAtLeast,
     DominatesCV, Value
<1>12. OwnerKnowsStamps'
  <2> SUFFICES ASSUME NEW u \in Stamps
               PROVE  KnowsAtLeast(docs'[u.hlv.src].hlv, u.hlv)
    BY <1>7 DEF OwnerKnowsStamps, KnowsAtLeast, Value
  <2>1. /\ u.hlv.src \in Gateway
        /\ \A s \in Source : Value(u.hlv, s) \in Nat
    BY <1>0, StampNumbers
  <2>2. KnowsAtLeast(docs[u.hlv.src].hlv, u.hlv)
    BY DEF StampInv, OwnerKnowsStamps
  <2>3. CASE u.hlv.src = d.to
    BY <1>1, <1>3, <1>5, <1>6, <2>1, <2>2, <2>3, KnowsTrans
  <2>4. CASE u.hlv.src # d.to
    BY <1>1, <2>1, <2>2, <2>4
  <2> QED
    BY <2>3, <2>4
<1>13. CopiesKnowStamps'
  <2> SUFFICES ASSUME NEW x \in Copies', NEW w \in Stamps, SameCV(w.hlv, x.hlv)
               PROVE  KnowsAtLeast(x.hlv, w.hlv)
    BY <1>7 DEF CopiesKnowStamps, KnowsAtLeast, Value, SameCV
  <2>1. CASE x \in Copies
    BY <2>1 DEF StampInv, CopiesKnowStamps
  <2>2. CASE x = new
    <3>1. \A s \in Source : Value(w.hlv, s) \in Nat
      BY StampNumbers
    <3>2. CASE SameCV(new.hlv, r.doc.hlv)
      <4>1. KnowsAtLeast(r.doc.hlv, w.hlv)
        BY <1>2, <2>2, <3>2 DEF StampInv, CopiesKnowStamps, SameCV
      <4> QED
        BY <1>3, <1>5, <1>6, <2>2, <3>1, <4>1, KnowsTrans
    <3>3. CASE SameCV(new.hlv, docs[d.to].hlv)
      <4>1. KnowsAtLeast(docs[d.to].hlv, w.hlv)
        BY <1>2, <2>2, <3>3 DEF StampInv, CopiesKnowStamps, SameCV
      <4> QED
        BY <1>3, <1>5, <1>6, <2>2, <3>1, <4>1, KnowsTrans
    <3> QED
      BY <1>1, <3>2, <3>3
  <2> QED
    BY <1>8, <2>1, <2>2
<1>14. ASSUME TiesSettled
       PROVE  HeldBeats'
  <2> SUFFICES ASSUME NEW x \in Copies', NEW u \in Stamps, NEW w \in Stamps,
                      SameCV(w.hlv, x.hlv), u.hlv.src # x.hlv.src,
                      DominatesCV(x.hlv, u.hlv)
               PROVE  Beats(w.hlv, u.hlv)
    BY <1>7 DEF HeldBeats, DominatesCV, Value, SameCV, Beats, Higher, Home,
       OneResolver
  <2>1. CASE x \in Copies
    BY <1>14, <2>1 DEF StampInv, HeldBeats
  <2>2. CASE x = new
    BY <1>14, <2>2, InstallBeats
  <2> QED
    BY <1>8, <2>1, <2>2
<1>15. TiesSettled' => TiesSettled
  <2>1. AllWrites' = AllWrites
    BY <1>1, StampsSame
  <2> QED
    BY <2>1 DEF TiesSettled, NoTies, OneResolver
<1> QED
  BY <1>9, <1>10, <1>11, <1>12, <1>13, <1>14, <1>15 DEF StampInv

\* A step that changes no copy of a gateway and writes nothing.
LEMMA QuietStamps ==
    ASSUME TypeOK, VersionInv, StampInv,
           docs' = docs, writes' = writes, \A x \in Copies' : x \in Copies
    PROVE  StampInv'
<1>1. Stamps' = Stamps /\ AllWrites' = AllWrites
  BY StampsSame
<1>2. KnownStart'
  BY DEF StampInv, KnownStart
<1>3. CopiesStamped'
  BY <1>1 DEF StampInv, CopiesStamped, SameCV
<1>4. StampsOrdered' /\ StampsAcyclic'
  BY <1>1 DEF StampInv, StampsOrdered, StampsAcyclic, KnowsAtLeast,
     DominatesCV, Value
<1>5. OwnerKnowsStamps'
  BY <1>1 DEF StampInv, OwnerKnowsStamps, KnowsAtLeast, Value
<1>6. CopiesKnowStamps'
  BY <1>1 DEF StampInv, CopiesKnowStamps, KnowsAtLeast, Value, SameCV
<1>7. (TiesSettled' => TiesSettled) /\ (HeldBeats => HeldBeats')
  BY <1>1 DEF TiesSettled, NoTies, OneResolver, HeldBeats, DominatesCV, Value,
     SameCV, Beats, Higher, Home
<1> QED
  BY <1>2, <1>3, <1>4, <1>5, <1>6, <1>7 DEF StampInv

LEMMA StampStep ==
    ASSUME TwoGateways, TypeOK, VersionInv, GossipInv, NoTombstone, StampInv,
           TypeOK', VersionInv', [Next]_vars
    PROVE  StampInv'
<1>1. CASE UNCHANGED vars
  <2>1. Copies' = Copies
    BY <1>1 DEF vars, Copies
  <2> QED
    BY <1>1, <2>1, QuietStamps DEF vars
<1>2. CASE \E g \in Gateway : LocalWrite(g)
  BY <1>2, LocalWriteStamps
<1>3. ASSUME NEW d \in Direction, Replicate(d)
      PROVE  StampInv'
  <2>1. d.from \in Gateway /\ d.to \in Gateway
    BY DirectionEnds
  <2>2. \A e \in Direction : \A q \in inflight'[e] : q.doc \in Copies
    BY <1>3, <2>1, FlightsAfter, CopiesAreDocs
  <2>3. ASSUME docs' = docs, writes' = writes
        PROVE  StampInv'
    <3>1. \A x \in Copies' : x \in Copies
      BY <2>1, <2>2, <2>3, CopiesAfter, CopiesAreDocs
    <3> QED
      BY <2>3, <3>1, QuietStamps
  <2>4. CASE Skip(d) \/ Send(d)
    BY <2>3, <2>4 DEF Skip, Send
  <2>5. ASSUME NEW r \in inflight[d], Cancel(d, r) \/ Reject(d, r)
        PROVE  StampInv'
    BY <2>3, <2>5, DropEffect
  <2>6. ASSUME NEW r \in inflight[d], NEW new, Installs(d, r, new)
        PROVE  StampInv'
    BY <2>6, InstallStamps
  <2> QED
    BY <1>3, <2>4, <2>5, <2>6, ReplicateCases
<1> QED
  BY <1>1, <1>2, <1>3 DEF Next

LEMMA StampInit == Init => StampInv
<1> SUFFICES ASSUME Init
             PROVE  StampInv
  OBVIOUS
<1>1. TypeOK /\ VersionInv
  BY InitHolds
<1>2. \A x \in Copies : x = InitialDoc
  <2>1. \A x \in Copies : \/ \E g \in Gateway : x = docs[g]
                          \/ \E d \in Direction : \E r \in inflight[d] : x = r.doc
    BY Zenon DEF Copies
  <2> QED
    BY <2>1 DEF Init
<1>3. \A u \in Stamps : u = InitialDoc
  <2>1. \A x : x \in AllWrites <=> \E h \in Gateway : x \in WritesOf(h)
    BY Zenon DEF AllWrites
  <2>2. \A h \in Gateway : WritesOf(h) = {}
    BY SMT DEF Init, WritesOf
  <2> QED
    BY <2>1, <2>2 DEF Stamps
<1>4. InitialDoc \in Stamps
  BY DEF Stamps
<1>5. /\ InitialDoc.hlv.src = Author /\ InitialDoc.hlv.ver = 5
      /\ Author \in Gateway
      /\ \A s \in Source : Value(InitialDoc.hlv, s) \in Nat
      /\ Value(InitialDoc.hlv, Author) = 5
  BY <1>1, <1>4, InitialType, StampNumbers DEF InitialDoc, Value, Gateway
<1>6. KnowsAtLeast(InitialDoc.hlv, InitialDoc.hlv)
  <2>1. \A m \in Nat : m >= m
    BY SMT
  <2> QED
    BY <1>5, <2>1 DEF KnowsAtLeast
<1>7. KnownStart
  BY <1>2, <1>5 DEF KnownStart
<1>8. CopiesStamped
  BY <1>2, <1>4 DEF CopiesStamped, SameCV
<1>9. StampsOrdered /\ CopiesKnowStamps
  BY <1>2, <1>3, <1>6 DEF StampsOrdered, CopiesKnowStamps
<1>10. OwnerKnowsStamps
  <2>1. docs[Author] = InitialDoc
    BY <1>5 DEF Init
  <2> QED
    BY <1>3, <1>5, <1>6, <2>1 DEF OwnerKnowsStamps
<1>11. StampsAcyclic
  BY <1>3 DEF StampsAcyclic
<1>12. HeldBeats
  BY <1>2, <1>3 DEF HeldBeats
<1> QED
  BY <1>7, <1>8, <1>9, <1>10, <1>11, <1>12 DEF StampInv

-----------------------------------------------------------------------------
(* What a copy has seen is closed under the knowledge of the writes: the   *)
(* current version of a write stands for all that its author then knew.    *)

CausalStamps ==
    \A w \in Stamps : \A x \in Copies :
        DominatesCV(x.hlv, w.hlv) => KnowsAtLeast(x.hlv, w.hlv)

CausalInv == OwnerKnowsStamps /\ CausalStamps

\* Every vector of numbers knows at least itself.
LEMMA KnowsItself ==
    ASSUME NEW h, \A s \in Source : Value(h, s) \in Nat
    PROVE  KnowsAtLeast(h, h)
<1>1. \A m \in Nat : m >= m
  BY SMT
<1> QED
  BY <1>1 DEF KnowsAtLeast

\* A step that neither writes nor installs has no new copy and no new stamp.
LEMMA QuietCausal ==
    ASSUME CausalInv, docs' = docs, writes' = writes,
           \A x \in Copies' : x \in Copies
    PROVE  CausalInv'
<1>1. Stamps' = Stamps
  BY StampsSame
<1> QED
  BY <1>1 DEF CausalInv, OwnerKnowsStamps, CausalStamps, KnowsAtLeast,
     DominatesCV, Value

\* A write knows what its author's copy knew, and no other copy has seen it.
LEMMA LocalWriteCausal ==
    ASSUME TypeOK, VersionInv, CausalInv, NEW g \in Gateway, LocalWrite(g)
    PROVE  CausalInv'
<1>1. PICK event \in Program[g][pcs[g] + 1], new \in Doc :
         /\ new.hlv.src = g /\ new.hlv.ver \in Nat
         /\ new.hlv.ver > Value(docs[g].hlv, g)
         /\ \A s \in Source : Value(new.hlv, s) =
               IF s = g THEN new.hlv.ver ELSE Value(docs[g].hlv, s)
         /\ docs'[g] = new
         /\ \A h \in Gateway : h # g => docs'[h] = docs[h]
         /\ writes' = [writes EXCEPT ![g] = Append(@, new)]
         /\ inflight' = inflight
  BY LocalWriteEffect
<1>2. Stamps' = Stamps \cup {new}
  BY <1>1, StampsAfter
<1>3. \A x \in Copies' : x \in Copies \/ x = new
  BY <1>1, CopiesAfter, CopiesAreDocs
<1>4. /\ g \in Source /\ docs[g] \in Copies
      /\ \A s \in Source : /\ Value(docs[g].hlv, s) \in Nat
                           /\ Value(new.hlv, s) \in Nat
  <2>1. g \in Source /\ docs[g] \in Copies
    BY CopiesAreDocs DEF Gateway
  <2> QED
    BY <1>1, <2>1, CopyNumbers
<1>5. KnowsAtLeast(new.hlv, docs[g].hlv)
  <2> SUFFICES ASSUME NEW s \in Source
               PROVE  Value(new.hlv, s) >= Value(docs[g].hlv, s)
    BY DEF KnowsAtLeast
  <2> QED
    BY <1>1, <1>4, SMT
<1>6. KnowsAtLeast(new.hlv, new.hlv)
  BY <1>4, KnowsItself
<1>7. ASSUME NEW w \in Stamps, KnowsAtLeast(docs[g].hlv, w.hlv)
      PROVE  KnowsAtLeast(new.hlv, w.hlv)
  <2>1. \A s \in Source : Value(w.hlv, s) \in Nat
    BY StampNumbers
  <2>2. \A n \in Nat : n \in Int
    BY SMT
  <2> QED
    BY <1>4, <1>5, <1>7, <2>1, <2>2, KnowsTrans
<1>8. ASSUME NEW w \in Stamps, DominatesCV(new.hlv, w.hlv)
      PROVE  KnowsAtLeast(new.hlv, w.hlv)
  <2>1. w.hlv.src \in Source
    BY StampNumbers
  <2>2. CASE w.hlv.src = g
    BY <1>7, <2>2 DEF CausalInv, OwnerKnowsStamps
  <2>3. CASE w.hlv.src # g
    <3>1. DominatesCV(docs[g].hlv, w.hlv)
      BY <1>1, <1>8, <2>1, <2>3 DEF DominatesCV
    <3> QED
      BY <1>4, <1>7, <3>1 DEF CausalInv, CausalStamps
  <2> QED
    BY <2>2, <2>3
<1>9. ASSUME NEW x \in Copies
      PROVE  ~ DominatesCV(x.hlv, new.hlv)
  <2>1. /\ Value(x.hlv, g) \in Nat
        /\ Value(x.hlv, g) <= Value(docs[g].hlv, g)
    BY <1>4, CopyNumbers DEF VersionInv, OwnVersionsAreNewest
  <2> QED
    BY <1>1, <1>4, <2>1, SMT DEF DominatesCV
<1>10. CausalStamps'
  <2>1. \A x \in Copies' : \A w \in Stamps' :
           DominatesCV(x.hlv, w.hlv) => KnowsAtLeast(x.hlv, w.hlv)
    BY <1>2, <1>3, <1>6, <1>8, <1>9 DEF CausalInv, CausalStamps
  <2> QED
    BY <2>1 DEF CausalStamps, DominatesCV, KnowsAtLeast, Value
<1>11. OwnerKnowsStamps'
  <2>1. \A u \in Stamps : u.hlv.src \in Gateway
    BY StampNumbers DEF Gateway
  <2>2. \A u \in Stamps' : KnowsAtLeast(docs'[u.hlv.src].hlv, u.hlv)
    BY <1>1, <1>2, <1>6, <1>7, <2>1 DEF CausalInv, OwnerKnowsStamps
  <2> QED
    BY <2>2 DEF OwnerKnowsStamps, KnowsAtLeast, Value
<1> QED
  BY <1>10, <1>11 DEF CausalInv

\* An install knows what either side knew: the side that had seen a write had
\* seen what the write was made on.
LEMMA InstallCausal ==
    ASSUME TwoGateways, TypeOK, VersionInv, GossipInv, CausalInv,
           NEW d \in Direction, NEW r \in inflight[d], NEW new,
           Installs(d, r, new)
    PROVE  CausalInv'
<1>1. d.from \in Gateway /\ d.to \in Gateway
  BY DirectionEnds
<1>2. /\ docs'[d.to] = new
      /\ \A h \in Gateway : h # d.to => docs'[h] = docs[h]
      /\ writes' = writes
      /\ \A e \in Direction : inflight'[e] \subseteq inflight[e]
  BY InstallEffect
<1>3. Stamps' = Stamps
  BY <1>2, StampsSame
<1>4. \A x \in Copies' : x \in Copies \/ x = new
  BY <1>1, <1>2, CopiesAfter, CopiesAreDocs
<1>5. \A s \in Source : Value(new.hlv, s) =
          Larger(Value(docs[d.to].hlv, s), Value(r.doc.hlv, s))
  BY InstallIsJoin
<1>6. /\ docs[d.to] \in Copies /\ r.doc \in Copies
      /\ \A s \in Source : /\ Value(docs[d.to].hlv, s) \in Nat
                           /\ Value(r.doc.hlv, s) \in Nat
  BY MergeFacts
<1>7. ASSUME NEW w \in Stamps,
             \/ KnowsAtLeast(docs[d.to].hlv, w.hlv)
             \/ KnowsAtLeast(r.doc.hlv, w.hlv)
      PROVE  KnowsAtLeast(new.hlv, w.hlv)
  <2> SUFFICES ASSUME NEW s \in Source
               PROVE  Value(new.hlv, s) >= Value(w.hlv, s)
    BY DEF KnowsAtLeast
  <2>1. Value(w.hlv, s) \in Nat
    BY StampNumbers
  <2>2. \/ Value(docs[d.to].hlv, s) >= Value(w.hlv, s)
        \/ Value(r.doc.hlv, s) >= Value(w.hlv, s)
    BY <1>7 DEF KnowsAtLeast
  <2> QED
    BY <1>5, <1>6, <2>1, <2>2, SMT DEF Larger
<1>8. ASSUME NEW w \in Stamps, DominatesCV(new.hlv, w.hlv)
      PROVE  KnowsAtLeast(new.hlv, w.hlv)
  <2>1. w.hlv.src \in Source
    BY StampNumbers
  <2>2. \/ DominatesCV(docs[d.to].hlv, w.hlv)
        \/ DominatesCV(r.doc.hlv, w.hlv)
    BY <1>5, <1>8, <2>1 DEF DominatesCV, Larger
  <2> QED
    BY <1>6, <1>7, <2>2 DEF CausalInv, CausalStamps
<1>9. CausalStamps'
  <2>1. \A x \in Copies' : \A w \in Stamps' :
           DominatesCV(x.hlv, w.hlv) => KnowsAtLeast(x.hlv, w.hlv)
    BY <1>3, <1>4, <1>8 DEF CausalInv, CausalStamps
  <2> QED
    BY <2>1 DEF CausalStamps, DominatesCV, KnowsAtLeast, Value
<1>10. OwnerKnowsStamps'
  <2>1. \A u \in Stamps : u.hlv.src \in Gateway
    BY StampNumbers DEF Gateway
  <2>2. \A u \in Stamps' : KnowsAtLeast(docs'[u.hlv.src].hlv, u.hlv)
    BY <1>2, <1>3, <1>7, <2>1 DEF CausalInv, OwnerKnowsStamps
  <2> QED
    BY <2>2 DEF OwnerKnowsStamps, KnowsAtLeast, Value
<1> QED
  BY <1>9, <1>10 DEF CausalInv

LEMMA CausalStep ==
    ASSUME TwoGateways, TypeOK, VersionInv, GossipInv, CausalInv, [Next]_vars
    PROVE  CausalInv'
<1>1. CASE UNCHANGED vars
  <2>1. Copies' = Copies
    BY <1>1 DEF vars, Copies
  <2> QED
    BY <1>1, <2>1, QuietCausal DEF vars
<1>2. CASE \E g \in Gateway : LocalWrite(g)
  BY <1>2, LocalWriteCausal
<1>3. ASSUME NEW d \in Direction, Replicate(d)
      PROVE  CausalInv'
  <2>1. d.from \in Gateway /\ d.to \in Gateway
    BY DirectionEnds
  <2>2. \A e \in Direction : \A q \in inflight'[e] : q.doc \in Copies
    BY <1>3, <2>1, FlightsAfter, CopiesAreDocs
  <2>3. ASSUME docs' = docs, writes' = writes
        PROVE  CausalInv'
    <3>1. \A x \in Copies' : x \in Copies
      BY <2>1, <2>2, <2>3, CopiesAfter, CopiesAreDocs
    <3> QED
      BY <2>3, <3>1, QuietCausal
  <2>4. CASE Skip(d) \/ Send(d)
    BY <2>3, <2>4 DEF Skip, Send
  <2>5. ASSUME NEW r \in inflight[d], Cancel(d, r) \/ Reject(d, r)
        PROVE  CausalInv'
    BY <2>3, <2>5, DropEffect
  <2>6. ASSUME NEW r \in inflight[d], NEW new, Installs(d, r, new)
        PROVE  CausalInv'
    BY <2>6, InstallCausal
  <2> QED
    BY <1>3, <2>4, <2>5, <2>6, ReplicateCases
<1> QED
  BY <1>1, <1>2, <1>3 DEF Next

LEMMA CausalInit == Init => CausalInv
<1> SUFFICES ASSUME Init
             PROVE  CausalInv
  OBVIOUS
<1>1. \A x \in Copies : x = InitialDoc
  <2>1. \A x \in Copies : \/ \E g \in Gateway : x = docs[g]
                          \/ \E d \in Direction : \E r \in inflight[d] : x = r.doc
    BY Zenon DEF Copies
  <2> QED
    BY <2>1 DEF Init
<1>2. \A u \in Stamps : u = InitialDoc
  <2>1. \A x : x \in AllWrites <=> \E h \in Gateway : x \in WritesOf(h)
    BY Zenon DEF AllWrites
  <2>2. \A h \in Gateway : WritesOf(h) = {}
    BY SMT DEF Init, WritesOf
  <2> QED
    BY <2>1, <2>2 DEF Stamps
<1>3. KnowsAtLeast(InitialDoc.hlv, InitialDoc.hlv)
  <2>1. TypeOK /\ InitialDoc \in Stamps
    BY InitHolds DEF Stamps
  <2> QED
    BY <2>1, StampNumbers, KnowsItself
<1>4. InitialDoc.hlv.src = Author /\ docs[Author] = InitialDoc
  BY InitialType DEF Init, InitialDoc, Gateway
<1>5. OwnerKnowsStamps
  BY <1>2, <1>3, <1>4 DEF OwnerKnowsStamps
<1>6. CausalStamps
  BY <1>1, <1>2, <1>3 DEF CausalStamps
<1> QED
  BY <1>5, <1>6 DEF CausalInv

\* A copy that has seen the version of a write, stored or under way, has seen
\* all that the write was made on: two gateways, any clocks, program, order of
\* application and topology, with the test of dominance between tombstones or
\* without any deletion.
THEOREM CausalKnowledge ==
    ASSUME TwoGateways, RecheckTombstonePath \/ NoDeletions
    PROVE  Spec => []KnowledgeIsCausal
<1> DEFINE Inv == GossipHolds /\ CausalInv
<1>1. Init => Inv
  BY GossipStep, CausalInit
<1>2. Inv /\ [Next]_vars => Inv'
  BY GossipStep, CausalStep DEF GossipHolds
<1>3. Inv => KnowledgeIsCausal
  BY DEF CausalInv, CausalStamps, KnowledgeIsCausal, Stamps
<1> QED
  BY <1>1, <1>2, <1>3, PTL DEF Spec

-----------------------------------------------------------------------------
(* The feeds.  A replication whose checkpoint has caught up with its origin *)
(* left the receiver knowing the origin's current version, unless it was    *)
(* rejected by an end that does not resolve; and then another replication   *)
(* between the same ends, or the one the other way, has to settle it.       *)

FeedOrder ==
    \A d \in Direction :
        /\ ckpt[d] <= seqs[d.from]
        /\ \A r \in inflight[d] :
              /\ r.seq <= seqs[d.from]
              /\ r.seq = seqs[d.from] => r.doc = docs[d.from]

Resolved(g, h) ==
    \E e \in Direction : e.from = g /\ e.to = h /\ e.resolver

Settled(d) ==
    \/ DominatesCV(docs[d.to].hlv, docs[d.from].hlv)
    \/ /\ ~ Resolved(d.from, d.to)
       /\ ~ DominatesCV(docs[d.from].hlv, docs[d.to].hlv)
    \/ ~ d.resolver /\ Resolved(d.from, d.to)

FeedSettled == \A d \in Direction : ckpt[d] >= seqs[d.from] => Settled(d)

FeedInv == FeedOrder /\ FeedSettled

LEMMA FeedNumbers ==
    ASSUME TypeOK
    PROVE  /\ \A g \in Gateway : seqs[g] \in Nat
           /\ \A d \in Direction : ckpt[d] \in Nat
           /\ \A d \in Direction : \A r \in inflight[d] : r.seq \in Nat
BY CopiesAreDocs DEF TypeOK, Rev

\* A gateway that knows at least what it knew still knows a current version.
LEMMA StillDominates ==
    ASSUME NEW h \in HLVs, NEW k \in HLVs, NEW l \in HLVs,
           KnowsAtLeast(h, k), DominatesCV(k, l)
    PROVE  DominatesCV(h, l)
<1>1. l.src \in Source /\ l.ver \in Nat
  BY DEF HLVs
<1>2. Value(h, l.src) \in Nat /\ Value(k, l.src) \in Nat
  BY <1>1, ValueType
<1>3. Value(h, l.src) >= Value(k, l.src) /\ Value(k, l.src) >= l.ver
  BY <1>1 DEF KnowsAtLeast, DominatesCV
<1> QED
  BY <1>1, <1>2, <1>3, SMT DEF DominatesCV

\* Sequences only grow, and a revision that is as new as its origin's feed
\* is its origin's copy.
LEMMA FeedOrderKept ==
    ASSUME TypeOK, VersionInv, FeedOrder, [Next]_vars
    PROVE  FeedOrder'
<1>0. /\ \A g \in Gateway : seqs[g] \in Nat
      /\ \A d \in Direction : ckpt[d] \in Nat
      /\ \A d \in Direction : \A r \in inflight[d] : r.seq \in Nat
  BY FeedNumbers
<1>1. ASSUME NEW g \in Gateway,
             seqs' = [seqs EXCEPT ![g] = @ + 1],
             \A h \in Gateway : h # g => docs'[h] = docs[h],
             \A e \in Direction :
                /\ inflight'[e] \subseteq inflight[e]
                /\ \/ ckpt'[e] = ckpt[e]
                   \/ \E r \in inflight[e] : ckpt'[e] = Larger(ckpt[e], r.seq)
      PROVE  FeedOrder'
  <2> SUFFICES ASSUME NEW e \in Direction
               PROVE  /\ ckpt'[e] <= seqs'[e.from]
                      /\ \A r \in inflight'[e] :
                            /\ r.seq <= seqs'[e.from]
                            /\ r.seq = seqs'[e.from] => r.doc = docs'[e.from]
    BY DEF FeedOrder
  <2>1. e.from \in Gateway
    BY DirectionEnds
  <2>2. ckpt[e] <= seqs[e.from] /\ \A r \in inflight[e] : r.seq <= seqs[e.from]
    BY DEF FeedOrder
  <2>3. ckpt'[e] <= seqs[e.from]
    BY <1>0, <1>1, <2>1, <2>2, SMT DEF Larger
  <2>4. CASE e.from = g
    <3>1. seqs'[e.from] = seqs[e.from] + 1
      BY <1>1, <2>1, <2>4 DEF TypeOK
    <3>2. \A n \in Nat : n <= seqs[e.from] => n <= seqs'[e.from] /\ n # seqs'[e.from]
      BY <1>0, <2>1, <3>1, SMT
    <3>3. ckpt'[e] \in Nat
      BY <1>0, <1>1, SMT DEF Larger
    <3> QED
      BY <1>0, <1>1, <2>2, <2>3, <3>2, <3>3
  <2>5. CASE e.from # g
    <3>1. seqs'[e.from] = seqs[e.from] /\ docs'[e.from] = docs[e.from]
      BY <1>1, <2>1, <2>5 DEF TypeOK
    <3> QED
      BY <1>1, <2>3, <3>1 DEF FeedOrder
  <2> QED
    BY <2>4, <2>5
<1>2. ASSUME docs' = docs, seqs' = seqs,
             \A e \in Direction :
                /\ \/ ckpt'[e] = ckpt[e]
                   \/ ckpt'[e] = Larger(ckpt[e], seqs[e.from])
                   \/ \E r \in inflight[e] : ckpt'[e] = Larger(ckpt[e], r.seq)
                /\ \A q \in inflight'[e] :
                      \/ q \in inflight[e]
                      \/ q.doc = docs[e.from] /\ q.seq = seqs[e.from]
      PROVE  FeedOrder'
  <2> SUFFICES ASSUME NEW e \in Direction
               PROVE  /\ ckpt'[e] <= seqs[e.from]
                      /\ \A q \in inflight'[e] :
                            /\ q.seq <= seqs[e.from]
                            /\ q.seq = seqs[e.from] => q.doc = docs[e.from]
    BY <1>2 DEF FeedOrder
  <2>1. e.from \in Gateway
    BY DirectionEnds
  <2>2. /\ ckpt[e] <= seqs[e.from]
        /\ \A r \in inflight[e] :
              /\ r.seq <= seqs[e.from]
              /\ r.seq = seqs[e.from] => r.doc = docs[e.from]
    BY DEF FeedOrder
  <2>3. ckpt'[e] <= seqs[e.from]
    BY <1>0, <1>2, <2>1, <2>2, SMT DEF Larger
  <2>4. seqs[e.from] <= seqs[e.from]
    BY <1>0, <2>1, SMT
  <2> QED
    BY <1>2, <2>2, <2>3, <2>4
<1>3. CASE UNCHANGED vars
  BY <1>2, <1>3 DEF vars
<1>4. ASSUME NEW g \in Gateway, LocalWrite(g)
      PROVE  FeedOrder'
  <2>1. PICK event \in Program[g][pcs[g] + 1], n \in Doc :
           /\ \A h \in Gateway : h # g => docs'[h] = docs[h]
           /\ seqs' = [seqs EXCEPT ![g] = @ + 1]
           /\ inflight' = inflight /\ ckpt' = ckpt
    BY <1>4, LocalWriteEffect
  <2> QED
    BY <1>1, <2>1
<1>5. ASSUME NEW d \in Direction, Replicate(d)
      PROVE  FeedOrder'
  <2>1. d.from \in Gateway /\ d.to \in Gateway
    BY DirectionEnds
  <2>2. CASE Skip(d)
    <3>1. /\ docs' = docs /\ seqs' = seqs /\ inflight' = inflight
          /\ ckpt' = [ckpt EXCEPT ![d] = Larger(@, seqs[d.from])]
      BY <2>2 DEF Skip
    <3>2. \A e \in Direction : \/ ckpt'[e] = ckpt[e]
                               \/ ckpt'[e] = Larger(ckpt[e], seqs[e.from])
      BY <3>1 DEF TypeOK
    <3> QED
      BY <1>2, <3>1, <3>2
  <2>3. CASE Send(d)
    <3>1. docs' = docs /\ seqs' = seqs /\ ckpt' = ckpt
      BY <2>3 DEF Send
    <3>2. inflight' = [inflight EXCEPT ![d] =
                          @ \cup {[doc |-> docs[d.from], seq |-> seqs[d.from]]}]
      BY <2>3 DEF Send
    <3>3. \A e \in Direction : \A q \in inflight'[e] :
             \/ q \in inflight[e]
             \/ q.doc = docs[e.from] /\ q.seq = seqs[e.from]
      BY <3>2 DEF TypeOK
    <3> QED
      BY <1>2, <3>1, <3>3
  <2>4. ASSUME NEW r \in inflight[d], Cancel(d, r) \/ Reject(d, r)
        PROVE  FeedOrder'
    <3>1. /\ docs' = docs /\ seqs' = seqs
          /\ ckpt' = [ckpt EXCEPT ![d] = Larger(@, r.seq)]
          /\ \A e \in Direction : inflight'[e] \subseteq inflight[e]
      BY <2>4, DropEffect
    <3>2. \A e \in Direction :
             \/ ckpt'[e] = ckpt[e]
             \/ \E q \in inflight[e] : ckpt'[e] = Larger(ckpt[e], q.seq)
      BY <3>1 DEF TypeOK
    <3> QED
      BY <1>2, <3>1, <3>2
  <2>5. ASSUME NEW r \in inflight[d], NEW new, Installs(d, r, new)
        PROVE  FeedOrder'
    <3>1. /\ \A h \in Gateway : h # d.to => docs'[h] = docs[h]
          /\ seqs' = [seqs EXCEPT ![d.to] = @ + 1]
          /\ ckpt' = [ckpt EXCEPT ![d] = Larger(@, r.seq)]
          /\ \A e \in Direction : inflight'[e] \subseteq inflight[e]
      BY <2>5, InstallEffect
    <3>2. \A e \in Direction :
             \/ ckpt'[e] = ckpt[e]
             \/ \E q \in inflight[e] : ckpt'[e] = Larger(ckpt[e], q.seq)
      BY <3>1 DEF TypeOK
    <3> QED
      BY <1>1, <2>1, <3>1, <3>2
  <2> QED
    BY <1>5, <2>2, <2>3, <2>4, <2>5, ReplicateCases
<1> QED
  BY <1>3, <1>4, <1>5 DEF Next

\* An install leaves the replications into its gateway settled: the one that
\* brought the latest copy of the other end because of what it brought, any
\* other because it was settled before.
LEMMA InstallSettles ==
    ASSUME TwoGateways, TypeOK, VersionInv, GossipInv, NoTombstone, FeedInv,
           TypeOK', NEW d \in Direction, NEW r \in inflight[d], NEW new,
           Installs(d, r, new), FeedOrder',
           NEW e \in Direction, ckpt'[e] >= seqs'[e.from]
    PROVE  Settled(e)'
<1>0. /\ d.to \in Gateway /\ d.from \in Gateway /\ d.from # d.to
      /\ e.to \in Gateway /\ e.from \in Gateway /\ e.from # e.to
      /\ Gateway = Source
  BY DirectionEnds DEF Gateway
<1>1. /\ new \in Doc
      /\ docs'[d.to] = new
      /\ \A h \in Gateway : h # d.to => docs'[h] = docs[h]
      /\ seqs' = [seqs EXCEPT ![d.to] = @ + 1]
      /\ ckpt' = [ckpt EXCEPT ![d] = Larger(@, r.seq)]
      /\ \/ SameCV(new.hlv, r.doc.hlv)
         \/ SameCV(new.hlv, docs[d.to].hlv)
      /\ \/ TakesTombstone(docs[d.to], r.doc)
         \/ TakesUpdate(docs[d.to], r.doc)
         \/ d.resolver
  BY InstallEffect
<1>2. /\ docs[d.to] \in Copies /\ r.doc \in Copies /\ docs[d.from] \in Copies
  BY <1>0, CopiesAreDocs
<1>3. /\ \A s \in Source : /\ Value(docs[d.to].hlv, s) \in Nat
                           /\ Value(r.doc.hlv, s) \in Nat
      /\ docs[d.to].hlv \in HLVs /\ r.doc.hlv \in HLVs /\ new.hlv \in HLVs
      /\ docs[d.from].hlv \in HLVs
      /\ Value(r.doc.hlv, r.doc.hlv.src) = r.doc.hlv.ver
      /\ r.doc.hlv.src \in Source /\ r.doc.hlv.ver \in Nat
  BY <1>1, <1>2, CopyNumbers DEF Doc
<1>4. \A s \in Source : Value(new.hlv, s) =
          Larger(Value(docs[d.to].hlv, s), Value(r.doc.hlv, s))
  BY InstallIsJoin
<1>5. KnowsAtLeast(new.hlv, docs[d.to].hlv) /\ KnowsAtLeast(new.hlv, r.doc.hlv)
  BY <1>3, <1>4, SMT DEF KnowsAtLeast, Larger
<1>6. /\ seqs[e.from] \in Nat /\ ckpt[e] \in Nat /\ r.seq \in Nat
      /\ ckpt[e] <= seqs[e.from]
  BY <1>0, FeedNumbers DEF FeedInv, FeedOrder
<1>7. e.from # d.to
  <2> SUFFICES ASSUME e.from = d.to
               PROVE  FALSE
    OBVIOUS
  <2>1. seqs'[e.from] = seqs[e.from] + 1
    BY <1>0, <1>1 DEF TypeOK
  <2>2. ckpt'[e] = ckpt[e]
    BY <1>0, <1>1 DEF TypeOK
  <2> QED
    BY <1>6, <2>1, <2>2, SMT
<1>8. e.from = d.from /\ e.to = d.to
  BY <1>0, <1>7, EitherEnd
<1>9. docs'[e.from] = docs[e.from] /\ seqs'[e.from] = seqs[e.from]
  BY <1>0, <1>1, <1>7 DEF TypeOK
<1>10. CASE e = d /\ r.seq >= seqs[d.from]
  <2>1. r.seq <= seqs[d.from] /\ (r.seq = seqs[d.from] => r.doc = docs[d.from])
    BY DEF FeedInv, FeedOrder
  <2>2. r.doc = docs[d.from]
    BY <1>6, <1>10, <2>1, SMT
  <2>3. DominatesCV(r.doc.hlv, r.doc.hlv)
    BY <1>3, SMT DEF DominatesCV
  <2>4. DominatesCV(new.hlv, docs[d.from].hlv)
    BY <1>3, <1>5, <2>2, <2>3, StillDominates
  <2> QED
    BY <1>1, <1>8, <1>9, <2>4 DEF Settled, DominatesCV, Value
<1>11. CASE ckpt[e] >= seqs[e.from]
  <2>1. Settled(e)
    BY <1>11 DEF FeedInv, FeedSettled
  <2>2. CASE DominatesCV(docs[e.to].hlv, docs[e.from].hlv)
    <3>1. DominatesCV(new.hlv, docs[e.from].hlv)
      BY <1>3, <1>5, <1>8, <2>2, StillDominates
    <3> QED
      BY <1>1, <1>8, <1>9, <3>1 DEF Settled, DominatesCV, Value
  <2>3. CASE /\ ~ Resolved(e.from, e.to)
             /\ ~ DominatesCV(docs[e.from].hlv, docs[e.to].hlv)
    <3>1. ~ d.resolver
      BY <1>8, <2>3 DEF Resolved
    <3>2. TakesUpdate(docs[d.to], r.doc)
      BY <1>1, <1>2, <3>1 DEF TakesTombstone, BothTombstones, NoTombstone
    <3>3. DominatesCV(r.doc.hlv, docs[d.to].hlv)
      BY <3>2 DEF TakesUpdate, Supersedes
    <3>4. KnowsAtLeast(docs[d.from].hlv, r.doc.hlv)
      BY DEF GossipInv, SentKnown
    <3>5. DominatesCV(docs[d.from].hlv, docs[d.to].hlv)
      BY <1>3, <3>3, <3>4, StillDominates
    <3> QED
      BY <1>8, <2>3, <3>5
  <2>4. CASE ~ e.resolver /\ Resolved(e.from, e.to)
    BY <2>4 DEF Settled, Resolved
  <2> QED
    BY <2>1, <2>2, <2>3, <2>4 DEF Settled
<1>12. \/ ckpt'[e] = ckpt[e]
       \/ e = d /\ ckpt'[e] = Larger(ckpt[e], r.seq)
  BY <1>1 DEF TypeOK
<1> QED
  BY <1>6, <1>8, <1>9, <1>10, <1>11, <1>12, SMT DEF Larger

\* A revision that is dropped: the receiver had it, or it was rejected by an
\* end that does not resolve.
LEMMA DropSettles ==
    ASSUME TypeOK, VersionInv, NoTombstone, FeedInv,
           NEW d \in Direction, NEW r \in inflight[d],
           Cancel(d, r) \/ Reject(d, r),
           NEW e \in Direction, ckpt'[e] >= seqs'[e.from]
    PROVE  Settled(e)'
<1>0. d.to \in Gateway /\ d.from \in Gateway /\ e.from \in Gateway
  BY DirectionEnds
<1>1. /\ docs' = docs /\ seqs' = seqs
      /\ ckpt' = [ckpt EXCEPT ![d] = Larger(@, r.seq)]
  BY DropEffect
<1>2. /\ seqs[e.from] \in Nat /\ ckpt[e] \in Nat /\ r.seq \in Nat
  BY <1>0, FeedNumbers
<1>3. Settled(e) => Settled(e)'
  BY <1>1 DEF Settled, Resolved, DominatesCV, Value
<1>4. CASE ckpt[e] >= seqs[e.from]
  BY <1>3, <1>4 DEF FeedInv, FeedSettled
<1>5. CASE e = d /\ r.seq >= seqs[d.from]
  <2>1. r.seq <= seqs[d.from] /\ (r.seq = seqs[d.from] => r.doc = docs[d.from])
    BY DEF FeedInv, FeedOrder
  <2>2. r.doc = docs[d.from]
    BY <1>2, <1>5, <2>1, SMT
  <2>3. docs[d.to] \in Copies /\ docs[d.from] \in Copies
    BY <1>0, CopiesAreDocs
  <2>4. CASE Cancel(d, r)
    <3>1. \/ SameCV(docs[d.to].hlv, docs[d.from].hlv)
          \/ DominatesCV(docs[d.to].hlv, docs[d.from].hlv)
      BY <2>2, <2>3, <2>4 DEF Cancel, Cancels, BothTombstones, NoTombstone,
         AlreadyPresent
    <3>2. SameCV(docs[d.to].hlv, docs[d.from].hlv) =>
             DominatesCV(docs[d.to].hlv, docs[d.from].hlv)
      BY <2>3, CopyNumbers, SMT DEF SameCV, DominatesCV
    <3> QED
      BY <1>3, <1>5, <3>1, <3>2 DEF Settled
  <2>5. CASE Reject(d, r)
    <3>1. /\ ~ DominatesCV(docs[d.from].hlv, docs[d.to].hlv)
          /\ ~ d.resolver
      BY <2>2, <2>5, ConflictUnseen DEF Reject
    <3> QED
      BY <1>3, <1>5, <3>1 DEF Settled
  <2> QED
    BY <2>4, <2>5
<1>6. \/ ckpt'[e] = ckpt[e]
      \/ e = d /\ ckpt'[e] = Larger(ckpt[e], r.seq)
  BY <1>1 DEF TypeOK
<1> QED
  BY <1>1, <1>2, <1>4, <1>5, <1>6, SMT DEF Larger

LEMMA FeedSettledKept ==
    ASSUME TwoGateways, TypeOK, VersionInv, GossipInv, NoTombstone, FeedInv,
           TypeOK', FeedOrder', [Next]_vars
    PROVE  FeedSettled'
<1>1. ASSUME docs' = docs, seqs' = seqs, NEW e \in Direction,
             Settled(e)
      PROVE  Settled(e)'
  BY <1>1 DEF Settled, Resolved, DominatesCV, Value
<1>2. ASSUME docs' = docs, seqs' = seqs, ckpt' = ckpt
      PROVE  FeedSettled'
  BY <1>1, <1>2 DEF FeedInv, FeedSettled
<1>3. ASSUME NEW g \in Gateway, LocalWrite(g)
      PROVE  FeedSettled'
  <2>1. PICK event \in Program[g][pcs[g] + 1], n \in Doc :
           /\ n.hlv.src = g
           /\ n.hlv.ver \in Nat
           /\ n.hlv.ver > Value(docs[g].hlv, g)
           /\ docs'[g] = n
           /\ \A h \in Gateway : h # g => docs'[h] = docs[h]
           /\ seqs' = [seqs EXCEPT ![g] = @ + 1]
           /\ inflight' = inflight /\ ckpt' = ckpt
    BY <1>3, LocalWriteEffect
  <2> SUFFICES ASSUME NEW e \in Direction, ckpt[e] >= seqs'[e.from]
               PROVE  Settled(e)'
    BY <2>1 DEF FeedSettled
  <2>2. /\ e.to \in Gateway /\ e.from \in Gateway /\ e.from # e.to
        /\ Gateway = Source
    BY DirectionEnds DEF Gateway
  <2>3. /\ seqs[e.from] \in Nat /\ ckpt[e] \in Nat
        /\ ckpt[e] <= seqs[e.from]
    BY <2>2, FeedNumbers DEF FeedInv, FeedOrder
  <2>4. e.from # g
    <3> SUFFICES ASSUME e.from = g
                 PROVE  FALSE
      OBVIOUS
    <3>1. seqs'[e.from] = seqs[e.from] + 1
      BY <2>1, <2>2 DEF TypeOK
    <3> QED
      BY <2>3, <3>1, SMT
  <2>5. seqs'[e.from] = seqs[e.from] /\ docs'[e.from] = docs[e.from]
    BY <2>1, <2>2, <2>4 DEF TypeOK
  <2>6. e.to = g
    BY <2>2, <2>4, EitherEnd DEF Gateway
  <2>7. Settled(e)
    BY <2>5 DEF FeedInv, FeedSettled
  <2>8. /\ docs[g] \in Copies /\ docs[e.from] \in Copies
        /\ docs[g].hlv \in HLVs /\ docs[e.from].hlv \in HLVs /\ n.hlv \in HLVs
    BY <2>2, CopiesAreDocs DEF TypeOK, Doc
  <2>9. CASE DominatesCV(docs[g].hlv, docs[e.from].hlv)
    <3>1. KnowsAtLeast(n.hlv, docs[g].hlv)
      BY <1>3, <2>1, StepKnows DEF Next
    <3>2. DominatesCV(n.hlv, docs[e.from].hlv)
      BY <2>8, <2>9, <3>1, StillDominates
    <3> QED
      BY <2>1, <2>5, <2>6, <3>2 DEF Settled, DominatesCV, Value
  <2>10. CASE ~ Resolved(e.from, e.to)
    <3>1. Value(docs[e.from].hlv, g) <= Value(docs[g].hlv, g)
      BY <2>2, <2>8 DEF VersionInv, OwnVersionsAreNewest
    <3>2. Value(docs[e.from].hlv, g) \in Nat /\ Value(docs[g].hlv, g) \in Nat
      BY <2>2, <2>8, ValueType
    <3>3. ~ (Value(docs[e.from].hlv, g) >= n.hlv.ver)
      BY <2>1, <3>1, <3>2, SMT
    <3>4. ~ DominatesCV(docs[e.from].hlv, n.hlv)
      BY <2>1, <3>3 DEF DominatesCV
    <3> QED
      BY <2>1, <2>5, <2>6, <2>10, <3>4 DEF Settled, Resolved, DominatesCV, Value
  <2>11. CASE ~ e.resolver /\ Resolved(e.from, e.to)
    BY <2>11 DEF Settled, Resolved
  <2> QED
    BY <2>6, <2>7, <2>9, <2>10, <2>11 DEF Settled
<1>4. ASSUME NEW d \in Direction, Replicate(d)
      PROVE  FeedSettled'
  <2>1. d.from \in Gateway
    BY DirectionEnds
  <2>2. CASE Skip(d)
    <3>1. /\ docs' = docs /\ seqs' = seqs
          /\ ckpt' = [ckpt EXCEPT ![d] = Larger(@, seqs[d.from])]
          /\ DominatesCV(docs[d.to].hlv, docs[d.from].hlv)
      BY <2>2 DEF Skip, KnownAtReceiver
    <3>2. \A e \in Direction : e # d => ckpt'[e] = ckpt[e]
      BY <3>1 DEF TypeOK
    <3>3. \A e \in Direction : ckpt'[e] >= seqs[e.from] => Settled(e)
      BY <3>1, <3>2 DEF FeedInv, FeedSettled, Settled
    <3> QED
      BY <1>1, <3>1, <3>3 DEF FeedSettled
  <2>3. CASE Send(d)
    BY <1>2, <2>3 DEF Send
  <2>4. ASSUME NEW r \in inflight[d], Cancel(d, r) \/ Reject(d, r)
        PROVE  FeedSettled'
    BY <2>4, DropSettles DEF FeedSettled
  <2>5. ASSUME NEW r \in inflight[d], NEW new, Installs(d, r, new)
        PROVE  FeedSettled'
    BY <2>5, InstallSettles DEF FeedSettled
  <2> QED
    BY <1>4, <2>2, <2>3, <2>4, <2>5, ReplicateCases
<1>5. CASE UNCHANGED vars
  BY <1>2, <1>5 DEF vars
<1> QED
  BY <1>3, <1>4, <1>5 DEF Next

-----------------------------------------------------------------------------
(* What rest means.                                                        *)

\* Both ways are replicated, and at least one end resolves conflicts.
Linked ==
    /\ \A g, h \in Source : g # h => \E d \in Direction : d.from = g /\ d.to = h
    /\ \E d \in Direction : d.resolver

ConvergenceInv ==
    /\ TypeOK /\ VersionInv /\ GossipInv /\ NoTombstone
    /\ StampInv /\ FeedInv

LEMMA ConvergenceStep ==
    ASSUME TwoGateways, NoDeletions
    PROVE  /\ Init => ConvergenceInv
           /\ ConvergenceInv /\ [Next]_vars => ConvergenceInv'
<1>1. ASSUME Init
      PROVE  ConvergenceInv
  <2>1. TypeOK /\ VersionInv /\ GossipInv /\ StampInv
    BY <1>1, GossipStep, StampInit DEF GossipHolds
  <2>2. NoTombstone
    <3>1. \A x \in Copies : x = InitialDoc
      <4>1. \A x \in Copies :
               \/ \E g \in Gateway : x = docs[g]
               \/ \E d \in Direction : \E r \in inflight[d] : x = r.doc
        BY Zenon DEF Copies
      <4> QED
        BY <1>1, <4>1 DEF Init
    <3> QED
      BY <3>1 DEF NoTombstone, IsTombstone, InitialDoc, NoDeletions
  <2>3. FeedOrder
    <3>1. \A d \in Direction : d.from \in Gateway
      BY DirectionEnds
    <3> QED
      BY <1>1, <3>1, SMT DEF Init, FeedOrder
  <2>4. FeedSettled
    <3> SUFFICES ASSUME NEW d \in Direction
                 PROVE  DominatesCV(docs[d.to].hlv, docs[d.from].hlv)
      BY DEF FeedSettled, Settled
    <3>1. d.to \in Gateway /\ d.from \in Gateway
      BY DirectionEnds
    <3>2. docs[d.to] \in Copies /\ docs[d.to] = docs[d.from]
      BY <1>1, <3>1, CopiesAreDocs, InitHolds DEF Init
    <3>3. /\ docs[d.to].hlv.ver \in Nat
          /\ Value(docs[d.to].hlv, docs[d.to].hlv.src) = docs[d.to].hlv.ver
      BY <2>1, <3>2, CopyNumbers
    <3> QED
      BY <3>2, <3>3, SMT DEF DominatesCV
  <2> QED
    BY <2>1, <2>2, <2>3, <2>4 DEF ConvergenceInv, FeedInv
<1>2. ASSUME ConvergenceInv, [Next]_vars
      PROVE  ConvergenceInv'
  <2>1. TypeOK /\ VersionInv /\ GossipInv /\ NoTombstone /\ StampInv /\ FeedInv
    BY <1>2 DEF ConvergenceInv
  <2>2. TypeOK' /\ VersionInv' /\ GossipInv'
    BY <1>2, <2>1, GossipStep DEF GossipHolds
  <2>3. NoTombstone'
    BY <1>2, <2>1, NoTombstoneKept
  <2>4. StampInv'
    BY <1>2, <2>1, <2>2, StampStep
  <2>5. FeedOrder'
    BY <1>2, <2>1, FeedOrderKept DEF FeedInv
  <2>6. FeedSettled'
    BY <1>2, <2>1, <2>2, <2>5, FeedSettledKept
  <2> QED
    BY <2>2, <2>3, <2>4, <2>5, <2>6 DEF ConvergenceInv, FeedInv
<1> QED
  BY <1>1, <1>2

\* At rest each gateway knows the current version of the other.
LEMMA RestKnows ==
    ASSUME TwoGateways, Linked, ConvergenceInv, Quiescent,
           NEW g \in Gateway, NEW h \in Gateway
    PROVE  DominatesCV(docs[g].hlv, docs[h].hlv)
<1>1. \A d \in Direction : Settled(d)
  BY DEF ConvergenceInv, FeedInv, FeedSettled, Quiescent
<1>2. ASSUME NEW a \in Source, NEW b \in Source, Resolved(a, b)
      PROVE  DominatesCV(docs[b].hlv, docs[a].hlv)
  <2>1. PICK e \in Direction : e.from = a /\ e.to = b /\ e.resolver
    BY <1>2 DEF Resolved
  <2> QED
    BY <1>1, <1>2, <2>1 DEF Settled
<1>3. ASSUME NEW a \in Source, NEW b \in Source, a # b, ~ Resolved(a, b)
      PROVE  \/ DominatesCV(docs[b].hlv, docs[a].hlv)
             \/ ~ DominatesCV(docs[a].hlv, docs[b].hlv)
  <2>1. PICK e \in Direction : e.from = a /\ e.to = b
    BY <1>3 DEF Linked
  <2> QED
    BY <1>1, <1>3, <2>1 DEF Settled
<1>4. CASE g = h
  <2>1. docs[g] \in Copies
    BY CopiesAreDocs DEF ConvergenceInv
  <2>2. /\ docs[g].hlv.ver \in Nat
        /\ Value(docs[g].hlv, docs[g].hlv.src) = docs[g].hlv.ver
    BY <2>1, CopyNumbers DEF ConvergenceInv
  <2> QED
    BY <1>4, <2>2, SMT DEF DominatesCV
<1>5. CASE g # h
  <2>1. PICK e \in Direction : e.resolver
    BY DEF Linked
  <2>2. e.from \in Source /\ e.to \in Source /\ e.from # e.to
    BY DirectionEnds
  <2>3. Resolved(g, h) \/ Resolved(h, g)
    BY <1>5, <2>1, <2>2, EitherEnd DEF Resolved, Gateway
  <2> QED
    BY <1>2, <1>3, <1>5, <2>3 DEF Gateway
<1> QED
  BY <1>4, <1>5

\* So at rest the two serve one version, and with it one body.
LEMMA RestAgrees ==
    ASSUME TwoGateways, Linked, ConvergenceInv, TiesSettled, Quiescent,
           NEW g \in Gateway, NEW h \in Gateway
    PROVE  SameCV(docs[g].hlv, docs[h].hlv) /\ docs[g].body = docs[h].body
<1> DEFINE x == docs[g]
           y == docs[h]
<1>0. TypeOK /\ VersionInv /\ StampInv
  BY DEF ConvergenceInv
<1>1. DominatesCV(x.hlv, y.hlv) /\ DominatesCV(y.hlv, x.hlv)
  BY RestKnows
<1>2. x \in Copies /\ y \in Copies
  BY <1>0, CopiesAreDocs
<1>3. /\ x.hlv.ver \in Nat /\ y.hlv.ver \in Nat
      /\ Value(x.hlv, x.hlv.src) = x.hlv.ver
      /\ Value(y.hlv, y.hlv.src) = y.hlv.ver
  BY <1>0, <1>2, CopyNumbers
<1> HIDE DEF x, y
<1>4. CASE x.hlv.src = y.hlv.src
  <2>1. SameCV(x.hlv, y.hlv)
    BY <1>1, <1>3, <1>4, SMT DEF DominatesCV, SameCV
  <2>2. x.body = y.body
    BY <1>0, <1>2, <2>1 DEF VersionInv, CVIdentifiesBody
  <2> QED
    BY <2>1, <2>2 DEF x, y
<1>5. CASE x.hlv.src # y.hlv.src
  <2>1. PICK v \in Stamps : SameCV(v.hlv, x.hlv)
    BY <1>0, <1>2 DEF StampInv, CopiesStamped
  <2>2. PICK w \in Stamps : SameCV(w.hlv, y.hlv)
    BY <1>0, <1>2 DEF StampInv, CopiesStamped
  <2>3. /\ v.hlv.src = x.hlv.src /\ v.hlv.ver = x.hlv.ver
        /\ w.hlv.src = y.hlv.src /\ w.hlv.ver = y.hlv.ver
    BY <2>1, <2>2 DEF SameCV
  <2>4. DominatesCV(x.hlv, w.hlv) /\ DominatesCV(y.hlv, v.hlv)
    BY <1>1, <2>3 DEF DominatesCV
  <2>5. HeldBeats
    BY <1>0 DEF StampInv
  <2>6. Beats(v.hlv, w.hlv)
    BY <1>2, <1>5, <2>1, <2>3, <2>4, <2>5 DEF HeldBeats
  <2>7. Beats(w.hlv, v.hlv)
    BY <1>2, <1>5, <2>2, <2>3, <2>4, <2>5 DEF HeldBeats
  <2>8. ~ (DominatesCV(v.hlv, w.hlv) /\ DominatesCV(w.hlv, v.hlv))
    BY <1>0, <1>5, <2>3 DEF StampInv, StampsAcyclic
  <2>9. Higher(v.hlv, w.hlv) /\ Higher(w.hlv, v.hlv)
    BY <2>6, <2>7, <2>8 DEF Beats
  <2>10. FALSE
    BY <1>3, <1>5, <2>3, <2>9, SMT DEF Higher
  <2> QED
    BY <2>10
<1> QED
  BY <1>4, <1>5

\* At rest every write is either the one served, or an older write of its
\* gateway, or beaten by it.
LEMMA RestBeats ==
    ASSUME TwoGateways, Linked, ConvergenceInv, TiesSettled, Quiescent,
           NEW g \in Gateway, NEW w \in AllWrites
    PROVE  \E v \in Stamps :
              /\ SameCV(v.hlv, docs[g].hlv)
              /\ \/ w.hlv.src = v.hlv.src /\ v.hlv.ver >= w.hlv.ver
                 \/ w.hlv.src # v.hlv.src /\ Beats(v.hlv, w.hlv)
<1>0. TypeOK /\ VersionInv /\ StampInv /\ w \in Stamps
  BY DEF ConvergenceInv, Stamps
<1>1. w.hlv.src \in Gateway /\ w.hlv.ver \in Nat
      /\ Value(w.hlv, w.hlv.src) = w.hlv.ver
  BY <1>0, StampNumbers DEF Gateway
<1> DEFINE x == docs[w.hlv.src]
<1>2. x \in Copies
  BY <1>0, <1>1, CopiesAreDocs
<1>3. SameCV(x.hlv, docs[g].hlv)
  BY <1>1, RestAgrees
<1>4. KnowsAtLeast(x.hlv, w.hlv)
  BY <1>0 DEF StampInv, OwnerKnowsStamps
<1>5. DominatesCV(x.hlv, w.hlv)
  BY <1>1, <1>4 DEF KnowsAtLeast, DominatesCV, Gateway
<1>6. Value(x.hlv, x.hlv.src) = x.hlv.ver
  BY <1>0, <1>2, CopyNumbers
<1> HIDE DEF x
<1>7. PICK v \in Stamps : SameCV(v.hlv, x.hlv)
  BY <1>0, <1>2 DEF StampInv, CopiesStamped
<1>8. v.hlv.src = x.hlv.src /\ v.hlv.ver = x.hlv.ver
  BY <1>7 DEF SameCV
<1>9. SameCV(v.hlv, docs[g].hlv)
  BY <1>3, <1>7 DEF SameCV
<1>10. CASE w.hlv.src = v.hlv.src
  BY <1>5, <1>6, <1>8, <1>9, <1>10 DEF DominatesCV
<1>11. CASE w.hlv.src # v.hlv.src
  <2>1. Beats(v.hlv, w.hlv)
    BY <1>0, <1>2, <1>5, <1>7, <1>8, <1>11 DEF StampInv, HeldBeats
  <2> QED
    BY <1>9, <1>11, <2>1
<1> QED
  BY <1>10, <1>11

\* Two gateways without deletions, replicating both ways with a resolver on
\* at least one end: at rest they serve the same document, as long as ties
\* of version numbers are settled.
THEOREM RestConverges ==
    ASSUME TwoGateways, NoDeletions, Linked
    PROVE  Spec => [](TiesSettled => QuiescentAgreement)
<1>1. ConvergenceInv => (TiesSettled => QuiescentAgreement)
  BY RestAgrees DEF QuiescentAgreement, Agree
<1>2. Init => ConvergenceInv
  BY ConvergenceStep
<1>3. ConvergenceInv /\ [Next]_vars => ConvergenceInv'
  BY ConvergenceStep
<1> QED
  BY <1>1, <1>2, <1>3, PTL DEF Spec

\* And no write with a higher number than the document served was lost: it
\* was itself replaced by a write made with it in view.
THEOREM RestLastWriteWins ==
    ASSUME TwoGateways, NoDeletions, Linked
    PROVE  Spec => [](TiesSettled => LastWriteWins)
<1>1. ConvergenceInv => (TiesSettled => LastWriteWins)
  <2> SUFFICES ASSUME ConvergenceInv, TiesSettled, Quiescent,
                      NEW g \in Gateway, NEW w \in AllWrites,
                      w.hlv.ver > docs[g].hlv.ver
               PROVE  \E x \in AllWrites : Supersedes(w.hlv, x.hlv)
    BY DEF LastWriteWins
  <2>1. PICK v \in Stamps :
           /\ SameCV(v.hlv, docs[g].hlv)
           /\ \/ w.hlv.src = v.hlv.src /\ v.hlv.ver >= w.hlv.ver
              \/ w.hlv.src # v.hlv.src /\ Beats(v.hlv, w.hlv)
    BY RestBeats
  <2>2. TypeOK /\ w \in Stamps
    BY DEF ConvergenceInv, Stamps
  <2>3. v.hlv.ver \in Nat /\ w.hlv.ver \in Nat /\ v.hlv.ver = docs[g].hlv.ver
    BY <2>1, <2>2, StampNumbers DEF SameCV
  <2>4. w.hlv.src # v.hlv.src /\ DominatesCV(v.hlv, w.hlv)
    BY <2>1, <2>3, SMT DEF Beats, Higher
  <2>5. v \in AllWrites
    <3> SUFFICES ASSUME v = InitialDoc
                 PROVE  FALSE
      BY DEF Stamps
    <3>1. w.hlv.src \in Source
      BY <2>2, StampNumbers
    <3>2. Value(v.hlv, w.hlv.src) = 0
      BY <2>4, <3>1 DEF InitialDoc, Value
    <3> QED
      BY <2>3, <2>4, <3>2, SMT DEF DominatesCV
  <2> QED
    BY <2>4, <2>5 DEF Supersedes, SameCV
<1>2. Init => ConvergenceInv
  BY ConvergenceStep
<1>3. ConvergenceInv /\ [Next]_vars => ConvergenceInv'
  BY ConvergenceStep
<1> QED
  BY <1>1, <1>2, <1>3, PTL DEF Spec

\* And the version served was replaced by no write.
THEOREM RestNotOverwritten ==
    ASSUME TwoGateways, NoDeletions, Linked
    PROVE  Spec => [](TiesSettled => NoOverwrittenVersion)
<1>1. ConvergenceInv => (TiesSettled => NoOverwrittenVersion)
  <2> SUFFICES ASSUME ConvergenceInv, TiesSettled, Quiescent,
                      NEW g \in Gateway, NEW w \in AllWrites,
                      Supersedes(docs[g].hlv, w.hlv)
               PROVE  FALSE
    BY DEF NoOverwrittenVersion
  <2>1. PICK v \in Stamps :
           /\ SameCV(v.hlv, docs[g].hlv)
           /\ \/ w.hlv.src = v.hlv.src /\ v.hlv.ver >= w.hlv.ver
              \/ w.hlv.src # v.hlv.src /\ Beats(v.hlv, w.hlv)
    BY RestBeats
  <2>2. TypeOK /\ w \in Stamps /\ StampInv
    BY DEF ConvergenceInv, Stamps
  <2>3. /\ v.hlv.ver \in Nat /\ w.hlv.ver \in Nat
        /\ v.hlv.src = docs[g].hlv.src /\ v.hlv.ver = docs[g].hlv.ver
        /\ Value(w.hlv, w.hlv.src) = w.hlv.ver
    BY <2>1, <2>2, StampNumbers DEF SameCV
  <2>4. DominatesCV(w.hlv, v.hlv) /\ ~ SameCV(v.hlv, w.hlv)
    BY <2>3 DEF Supersedes, DominatesCV, SameCV
  <2>5. CASE w.hlv.src = v.hlv.src /\ v.hlv.ver >= w.hlv.ver
    BY <2>3, <2>4, <2>5, SMT DEF DominatesCV, SameCV
  <2>6. CASE w.hlv.src # v.hlv.src /\ Beats(v.hlv, w.hlv)
    BY <2>2, <2>4, <2>6 DEF Beats, StampInv, StampsAcyclic
  <2> QED
    BY <2>1, <2>5, <2>6
<1>2. Init => ConvergenceInv
  BY ConvergenceStep
<1>3. ConvergenceInv /\ [Next]_vars => ConvergenceInv'
  BY ConvergenceStep
<1> QED
  BY <1>1, <1>2, <1>3, PTL DEF Spec

\* With one resolver, the topology of a pull and a push, ties are settled
\* whatever the clocks: the three hold of every program without deletions.
COROLLARY OneResolverConverges ==
    ASSUME TwoGateways, NoDeletions, Linked,
           \E h \in Source : OneResolver(h)
    PROVE  Spec => [](QuiescentAgreement /\ LastWriteWins /\ NoOverwrittenVersion)
<1>1. TiesSettled
  BY DEF TiesSettled
<1>2. Spec => []TiesSettled
  BY <1>1, PTL
<1> QED
  BY <1>2, RestConverges, RestLastWriteWins, RestNotOverwritten, PTL
=============================================================================
