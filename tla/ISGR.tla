------------------------------- MODULE ISGR --------------------------------
(***************************************************************************)
(* Inter-Sync Gateway Replication of one document (sg_model.py, second     *)
(* half): gateways that accept local writes, and one-way replications      *)
(* between them.  A replication reads the changes feed of its origin in    *)
(* two phases: a change that the receiver has already seen is skipped, any *)
(* other is requested and put in flight, and the revisions in flight are   *)
(* applied in any order.  Only the pulling end resolves conflicts; the     *)
(* end that is pushed to rejects them with a 409, and the sequence counts  *)
(* as processed all the same.                                              *)
(***************************************************************************)
EXTENDS HLV, Sequences, FiniteSets

CONSTANTS
    Body,                 \* what a local event writes
    Deleted,              \* the event that deletes: the body of a tombstone
    Direction,            \* one-way replications, [from, to, resolver]
    Skew,                 \* per gateway, the offset of its clock
    Program,              \* per gateway, the choices of its n-th local event
    MaxInflight,          \* revisions a replication keeps in flight
    Author,               \* the gateway that wrote the first revision
    InitialBody,
    RecheckTombstonePath  \* TRUE: test dominance between tombstones too

Gateway == Source

ASSUME DeletedIsABody   == Deleted \in Body
ASSUME DirectionType    == Direction \subseteq
                              [from : Source, to : Source, resolver : BOOLEAN]
ASSUME NoLoopback       == \A d \in Direction : d.from # d.to
ASSUME SkewType         == Skew \in [Source -> Int]
ASSUME ProgramType      == Program \in [Source -> Seq(SUBSET Body)]
ASSUME MaxInflightType  == MaxInflight \in Nat
ASSUME InitialType      == Author \in Source /\ InitialBody \in Body
ASSUME RecheckType      == RecheckTombstonePath \in BOOLEAN

VARIABLES
    docs,      \* the copy of each gateway: its vector and its body
    seqs,      \* the position of that copy in the gateway's changes feed
    ckpt,      \* per replication, the last sequence processed
    inflight,  \* per replication, the revisions requested and not applied
    pcs,       \* how many of its local events a gateway has performed
    clock,     \* real time, in local writes
    writes     \* per gateway, what its local writes produced, in order

vars == <<docs, seqs, ckpt, inflight, pcs, clock, writes>>

Doc == [hlv : HLVs, body : Body]
Rev == [doc : Doc, seq : Nat]

IsTombstone(doc) == doc.body = Deleted

-----------------------------------------------------------------------------
(* Conflict handling: put_existing_current_version, one operator per path. *)

BothTombstones(local, incoming) == IsTombstone(local) /\ IsTombstone(incoming)

\* (Mutation: every conflict goes to the incoming revision.)
RemoteAlwaysWins(local, incoming) == TRUE

\* The default resolver, lww_winner: a tombstone beats a live revision,
\* otherwise the higher version number wins and a tie stays local.
RemoteWins(local, incoming) ==
    \/ IsTombstone(incoming) /\ ~ IsTombstone(local)
    \/ /\ IsTombstone(incoming) = IsTombstone(local)
       /\ incoming.hlv.ver > local.hlv.ver

\* A tombstone replaces a tombstone with no conflict check at all, unless
\* the counterfactual switch of the model is on.
TakesTombstone(local, incoming) ==
    /\ BothTombstones(local, incoming)
    /\ ~ (RecheckTombstonePath /\ DominatesCV(local.hlv, incoming.hlv))

Cancels(local, incoming) ==
    IF BothTombstones(local, incoming)
    THEN RecheckTombstonePath /\ DominatesCV(local.hlv, incoming.hlv)
    ELSE AlreadyPresent(local.hlv, incoming.hlv)

TakesUpdate(local, incoming) ==
    ~ BothTombstones(local, incoming) /\ Supersedes(local.hlv, incoming.hlv)

Conflicts(local, incoming) ==
    ~ BothTombstones(local, incoming) /\ InConflict(local.hlv, incoming.hlv)

\* (Mutations: a merge that leaves one side's history out.)
KeepIncomingOnly(local, incoming) == incoming
KeepLocalOnly(local, incoming) == local

\* The two documents that a merge can leave: the incoming revision or the
\* local one, with the history of both.
KeepIncoming(local, incoming) ==
    [incoming EXCEPT !.hlv = UpdateWithIncoming(local.hlv, incoming.hlv)]

KeepLocal(local, incoming) ==
    [local EXCEPT !.hlv = UpdateWithIncoming(incoming.hlv, local.hlv)]

-----------------------------------------------------------------------------
(* Local writes. *)

TickLength == 10

\* The version a gateway stamps: its clock, and in any case more than every
\* version of its own that its copy has seen.
NextVersion(g) ==
    Larger((clock + 1) * TickLength + Skew[g], Value(docs[g].hlv, g) + 1)

LocalWrite(g) ==
    /\ pcs[g] < Len(Program[g])
    /\ \E event \in Program[g][pcs[g] + 1] :
       LET stamped == AddVersion(docs[g].hlv, g, NextVersion(g))
       IN  /\ docs'   = [docs EXCEPT ![g] = [hlv |-> stamped, body |-> event]]
           /\ writes' = [writes EXCEPT ![g] =
                            Append(@, [body |-> event, hlv |-> stamped])]
    /\ seqs'  = [seqs EXCEPT ![g] = @ + 1]
    /\ pcs'   = [pcs EXCEPT ![g] = @ + 1]
    /\ clock' = clock + 1
    /\ UNCHANGED <<ckpt, inflight>>

-----------------------------------------------------------------------------
(* Replication, phase 1: the changes feed of the origin is read past the   *)
(* checkpoint and past every revision in flight.                           *)

HasUnreadChange(d) ==
    /\ seqs[d.from] > ckpt[d]
    /\ \A r \in inflight[d] : seqs[d.from] > r.seq
    /\ Cardinality(inflight[d]) < MaxInflight

\* (Mutation: only the very version counts as known.)
HeldByReceiver(d) == SameCV(docs[d.to].hlv, docs[d.from].hlv)

KnownAtReceiver(d) == DominatesCV(docs[d.to].hlv, docs[d.from].hlv)

Skip(d) ==
    /\ HasUnreadChange(d)
    /\ KnownAtReceiver(d)
    /\ ckpt' = [ckpt EXCEPT ![d] = Larger(@, seqs[d.from])]
    /\ UNCHANGED <<docs, seqs, inflight, pcs, clock, writes>>

Send(d) ==
    /\ HasUnreadChange(d)
    /\ ~ KnownAtReceiver(d)
    /\ inflight' = [inflight EXCEPT ![d] =
                       @ \cup {[doc |-> docs[d.from], seq |-> seqs[d.from]]}]
    /\ UNCHANGED <<docs, seqs, ckpt, pcs, clock, writes>>

\* (Mutation: the checkpoint is not advanced.)
TakenOff(d, r) ==
    /\ inflight' = [inflight EXCEPT ![d] = @ \ {r}]
    /\ UNCHANGED <<ckpt, pcs, clock, writes>>

(***************************************************************************)
(* Phase 2: any revision in flight is applied, on top of whatever copy the *)
(* receiver has by then.  Every outcome counts the sequence as processed.  *)
(***************************************************************************)
Processed(d, r) ==
    /\ inflight' = [inflight EXCEPT ![d] = @ \ {r}]
    /\ ckpt'     = [ckpt EXCEPT ![d] = Larger(@, r.seq)]
    /\ UNCHANGED <<pcs, clock, writes>>

Install(g, doc) ==
    /\ docs' = [docs EXCEPT ![g] = doc]
    /\ seqs' = [seqs EXCEPT ![g] = @ + 1]

\* The revision changes nothing: the receiver has it already.
Cancel(d, r) ==
    /\ Cancels(docs[d.to], r.doc)
    /\ Processed(d, r)
    /\ UNCHANGED <<docs, seqs>>

TombstoneOverTombstone(d, r) ==
    /\ TakesTombstone(docs[d.to], r.doc)
    /\ Processed(d, r)
    /\ Install(d.to, KeepIncoming(docs[d.to], r.doc))

\* No conflict: the incoming revision has seen the local one.
FastForward(d, r) ==
    /\ TakesUpdate(docs[d.to], r.doc)
    /\ Processed(d, r)
    /\ Install(d.to, KeepIncoming(docs[d.to], r.doc))

\* A conflict where the receiver does not resolve: 409, and the sequence is
\* marked processed all the same.
Reject(d, r) ==
    /\ Conflicts(docs[d.to], r.doc)
    /\ ~ d.resolver
    /\ Processed(d, r)
    /\ UNCHANGED <<docs, seqs>>

ResolveRemoteWins(d, r) ==
    /\ Conflicts(docs[d.to], r.doc)
    /\ d.resolver
    /\ RemoteWins(docs[d.to], r.doc)
    /\ Processed(d, r)
    /\ Install(d.to, KeepIncoming(docs[d.to], r.doc))

ResolveLocalWins(d, r) ==
    /\ Conflicts(docs[d.to], r.doc)
    /\ d.resolver
    /\ ~ RemoteWins(docs[d.to], r.doc)
    /\ Processed(d, r)
    /\ Install(d.to, KeepLocal(docs[d.to], r.doc))

Resolve(d, r) == ResolveRemoteWins(d, r) \/ ResolveLocalWins(d, r)

Apply(d, r) ==
    \/ Cancel(d, r)
    \/ TombstoneOverTombstone(d, r)
    \/ FastForward(d, r)
    \/ Reject(d, r)
    \/ Resolve(d, r)

Replicate(d) == Skip(d) \/ Send(d) \/ \E r \in inflight[d] : Apply(d, r)

-----------------------------------------------------------------------------
\* Both ends start in sync on a revision that one of them wrote.
InitialDoc == [hlv  |-> [src |-> Author, ver |-> 5, pv |-> [s \in Source |-> 0]],
               body |-> InitialBody]

Init ==
    /\ docs = [g \in Gateway |-> InitialDoc]
    /\ seqs = [g \in Gateway |-> 1]
    /\ ckpt = [d \in Direction |-> 1]
    /\ inflight = [d \in Direction |-> {}]
    /\ pcs = [g \in Gateway |-> 0]
    /\ clock = 0
    /\ writes = [g \in Gateway |-> <<>>]

Next ==
    \/ \E g \in Gateway : LocalWrite(g)
    \/ \E d \in Direction : Replicate(d)

Spec == Init /\ [][Next]_vars

\* The replicators run continuously: each one that can read its feed or
\* apply a revision eventually does.  Local writes are never forced.
FairSpec == Spec /\ \A d \in Direction : WF_vars(Replicate(d))

-----------------------------------------------------------------------------
TypeOK ==
    /\ docs \in [Gateway -> Doc]
    /\ seqs \in [Gateway -> Nat]
    /\ ckpt \in [Direction -> Nat]
    /\ inflight \in [Direction -> SUBSET Rev]
    /\ pcs \in [Gateway -> Nat]
    /\ clock \in Nat
    /\ writes \in [Gateway -> Seq(Doc)]

Copies == {docs[g] : g \in Gateway}
            \cup UNION {{r.doc : r \in inflight[d]} : d \in Direction}

\* A source knows its own versions best: no copy, stored or in flight, has
\* seen a version of a source that the source's own copy has not.
OwnVersionsAreNewest ==
    \A x \in Copies : \A s \in Source :
        Value(x.hlv, s) <= Value(docs[s].hlv, s)

\* Two copies with the same current version, stored or in flight, carry the
\* same body: the version tells everything the verdicts need to know.
CVIdentifiesBody ==
    \A x, y \in Copies : SameCV(x.hlv, y.hlv) => x.body = y.body

\* A revision is never on its way to the gateway that wrote it, which has
\* seen it by definition: phase 1 must notice, on a later copy, every time.
NothingReturns ==
    \A d \in Direction : \A r \in inflight[d] : r.doc.hlv.src # d.to

\* The history of a vector has no entry for its current source.
HistoryExcludesCurrent ==
    \A x \in Copies : x.hlv.pv[x.hlv.src] = 0

\* Version numbers keep their meaning: what the statements above say of
\* stored copies and of revisions in flight holds together, step after step.
VersionInv ==
    /\ HistoryExcludesCurrent
    /\ OwnVersionsAreNewest
    /\ NothingReturns
    /\ CVIdentifiesBody

\* No step takes back a version number that its source has used.
OwnVersionsOnlyGrow ==
    [][\A s \in Source :
          Value(docs'[s].hlv, s) >= Value(docs[s].hlv, s)]_vars

Quiescent ==
    \A d \in Direction : inflight[d] = {} /\ ckpt[d] >= seqs[d.from]

Agree(x, y) ==
    /\ x.body = y.body
    /\ IsTombstone(x) \/ SameCV(x.hlv, y.hlv)

\* With nothing left to replicate, every gateway serves the same document.
QuiescentAgreement ==
    Quiescent => \A g, h \in Gateway : Agree(docs[g], docs[h])

WritesOf(g) == {writes[g][i] : i \in DOMAIN writes[g]}

AllWrites == UNION {WritesOf(g) : g \in Gateway}

\* With nothing left to replicate, no gateway serves a version that some
\* write replaced: an overwritten version does not come back.
NoOverwrittenVersion ==
    Quiescent => \A g \in Gateway : \A w \in AllWrites :
                    IsTombstone(docs[g]) \/ ~ Supersedes(docs[g].hlv, w.hlv)

\* With nothing left to replicate, a write with a higher version number than
\* the document served was itself replaced: some write was made with it in
\* view.  A concurrent write never wins with a lower number.
LastWriteWins ==
    Quiescent => \A g \in Gateway : \A w \in AllWrites :
        w.hlv.ver > docs[g].hlv.ver =>
            \E x \in AllWrites : Supersedes(w.hlv, x.hlv)

KnowsAtLeast(h, g) == \A s \in Source : Value(h, s) >= Value(g, s)

\* No step makes a gateway forget a version it has seen.
KnowledgeNeverShrinks ==
    [][\A g \in Gateway : KnowsAtLeast(docs'[g].hlv, docs[g].hlv)]_vars

\* What a copy has seen is closed: whoever has seen the version of a write has
\* seen all that the write was made on, in every state and under way too.
\* The conflict test and phase 1 compare current versions only, and rely on it.
KnowledgeIsCausal ==
    \A w \in AllWrites : \A x \in Copies :
        DominatesCV(x.hlv, w.hlv) => KnowsAtLeast(x.hlv, w.hlv)

\* The vectors of the gateways and of the revisions in flight gossip.
knowOf == [g \in Gateway |-> Knowledge(docs[g].hlv)]

wireOf == {Knowledge(r.doc.hlv) : r \in UNION {inflight[d] : d \in Direction}}

Gossip == INSTANCE VersionGossip WITH know <- knowOf, wire <- wireOf

\* Replication with the dominance test implements that gossip.
ImplementsGossip == Gossip!Spec

\* The replicators come to rest.
Quiesces == <>[]Quiescent

InSync == \A g, h \in Gateway : Agree(docs[g], docs[h])

\* Once the writes stop, the gateways come to agree and stay so.
EventuallyInSync == <>[]InSync
=============================================================================
