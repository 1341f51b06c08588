# A TLA+ development of the Normalization Confluence repository

The repository asks one question of many systems: when do executions that apply the same events in different
orders, and repair their states when an event breaks an invariant, end in the same state? It answers with Coq
proofs, with executable models of real replicators that are searched exhaustively, and with checkers extracted
from the proofs to OCaml and, by a translator of its own, to Go. This development restates the systems those proofs and searches are about
as TLA+ modules, checks them with TLC on small instances, and proves the central results for every instance
with TLAPS.

From this directory, `tlc -config X.cfg M` repeats a run and `tlapm MProofs.tla` a module of proofs.

## 1. Inventory

### 1.1 The parts, their state and their operations

| Part | Source | State | Operations | Correct when |
|---|---|---|---|---|
| Inter-Sync Gateway replication (ISGR) | `research/predictions/p4/sg_model.py` | per gateway a document with a hybrid logical vector, a feed position and a program counter; per replication a checkpoint and the revisions in flight | local write; per replication: skip a change, send it, apply a revision (cancel, tombstone over tombstone, fast-forward, reject, resolve either way) | gateways agree at rest; replication comes to rest; version numbers keep their meaning |
| Search driver of the ISGR model | `p4/search.py`, `p4/trace_p8.py` | none | enumerates topologies, clocks, programs | its verdicts are the model's |
| Federated events | `coq/FederationEvents.v`, `DistributedExact.v` | the states of registries in a topological order, parts of which are images of other registries' states | an event at one registry; propagation of current values | completing the propagation gives what the federated machine reaches with the same events |
| Projection channels | `coq/ProjectionChannels.v`, `ProjectionChains.v` | the same, and per target the projections in flight and the versions sent and applied | event, send, delivery, duplicate delivery, final round; plain or versioned merge | stale projections do no harm; the final round alone settles every target |
| Governance rewriting | `coq/Governance.v`, `GovernanceCausal.v`, `AtomicRepair.v` | a state and a buffer of undelivered events | apply an event; one compensation step; or both at once (atomic repair) | termination, unique normal forms, interleaved repair is atomic repair |
| Rule oracle | `coq/AstChecker.v` | a machine (domains, invariants with repairs, guarded events) and a valuation | evaluate, clamp, apply, repair, normalise; `checkBuild` | what it certifies converges, and the runtime computes what it computed |
| Table oracles | `coq/TableFn.v`, `TableFast.v`, `AstTables.v`, `AstCompact.v` and their Go in `coq/goextract/oracle/oracle_gen.go` | step and normal-form tables as functions, cells in a trie, or columns packed in blocks | build the tables from the rules, look up, check | every one answers as `checkBuild` does on the same machine |
| Front ends | `coq/goextract/cmd/rulecheck`, `cmd/tablecheck` | what has been read so far; a reason; an exit status | read a form or a token, fill in defaults, check the fragment, call an oracle, explain | the verdict is the reference checker's on what the file means; accepted tables converge when they run |
| Coq-to-Go translator | `coq/goextract/gogen` | the function being emitted | refuse, translate each kind of term, turn tail calls into loops | the Go returns what the term means, or panics where a number leaves the machine's range |
| Generated Go and its number types | `goextract/semantics`, `oracle`, `primcheck`, `gogen/prims.go` | a machine integer | checked arithmetic; digits; division, powers, shifts, square root | exact or stopped, and stopped only where the result does not fit |
| CouchDB and PouchDB revision models | `research/predictions/route2/*.py` | the revision trees of one document | replicated update (merge, then stem), compaction, winner | no head is lost; what order does to a deleted document is as P3 claims |
| Delivery | `coq/CausalReplay.v`, `DistributedDelivery.v`, `AtLeastOnce*.v`, `Stream*.v` | a state and the events delivered | deliver in causal order, redeliver | convergence under each delivery guarantee |
| Reconfiguration | `coq/Reconfiguration*.v` | a configuration with its state and buffer | switch in the middle of a run | convergence across the switch |
| Self-stabilization | `coq/SelfStabilization.v` | Dijkstra's ring | privileged moves | closure and convergence |
| Cyclic and rootless networks | `coq/DistributedCycles*.v`, `Coordinated*.v`, `Chaotic*.v`, ... | registries that read one another in cycles | chaotic repair | settlement under conditions on the cycles |
| Stable matching | `research/predictions/p2`, `coq/StableMatchingP2.v` | a matching | satisfy a blocking pair | a fair loop that never settles exists |
| Fair settlement game | `research/gap3-fair-settlement` | tokens on a network | fair repair passes | settlement in a bounded number of passes |
| Theory without executions | cohomology, sheaves, cutoffs, hardness, lossy minima | - | - | - |

`PROJECT.json` lists each with its files and the reason where one is not modelled.

### 1.2 How they interact

ISGR replications read one gateway's feed and write another gateway's document; two replications and the local
writers share the two documents, and what a replication decided in phase 1 (is the change missing?) is used in
phase 2 when the receiver has moved on. Registries interact through projections only: a source's state is
snapshotted, travels, and is merged into the target's shared part. A registry's own execution is the governance
rewriting; the rule oracle is the check, before a machine runs, that its rules meet the hypotheses under which
that rewriting converges. The federated machine's repair of one registry is such a rewriting run to completion.

The oracles form a chain. The rule checker is the reference; `checkBuildT` lists the same machine as tables for the
list oracle; `checkBuildC` packs them. `rulecheck` reads a machine, rejects what the runtime's integers cannot run,
asks `checkBuildC` and looks up a reason; `tablecheck` reads tables and asks `check_fn`. All of that runs as Go that
`gogen` emitted from the extracted terms, on numbers that are Go's `int` where the proofs have unbounded ones: the
translation and the arithmetic are what stands between the theorem and the verdict a user sees.

The revision models stand alone: one database, the documents a replicator brings it, and the tree it keeps.

### 1.3 What is hard

Stale decisions between the two phases of a replication; revisions and projections that arrive late, out of
order or twice; tombstones that are exempt from the conflict check; clocks that run behind; events applied in
the middle of a repair; a start state that no invariant admits; a repair that cycles; machine integers where
the checker has mathematical ones; a column that starts in the middle of a block; a file whose forms come in another
order; a closure that outlives the iteration that made it; pruning that turns one tree into two. Section "hazards" of `PROJECT.json` has one entry per line of code where
one of these bites, with the properties that watch it.

## 2. The modules

```
HLV            vectors of versions                  Federation     registries, events, repair, conditions
  ISGR         the replication machine                FedMachine     the abstract machine
    VersionGossip (abstract)                          Propagation    current values
    MC_ISGR, ISGRProofs                               Channels       late, reordered, repeated projections
                                                      FedInstances   the source's example federations
Rewriting      configurations, steps, hypotheses      MC_Channels, MC_Propagation
  AtomicRepair (abstract), Governance                 ChannelsProofs
  RewritingProofs, AtomicRepairProofs, GovernanceProofs
Rules          rule language and certificate
  RuleMachines, Registry                            MC_AtomicRepair, MC_Governance

Blocks         blocks and tries                     Prims          checked machine integers
TablePairs, TableOracle   check_fn                    PrimsProofs
FastOracle     check_fast                           Numbers, Derived   the Rocq definitions, twice instantiated
CompactOracle  checkBuildT, checkBuildC               PrimCheck    a calculation, three times side by side
Tokens         words of a file                      MiniML         the extracted language
TableCheck, RuleCheck     the commands                Gogen        the translator
  MC_FrontEnds, TableCheckProofs                        GoMachine  the Go it emits
                                                          MC_GoExtract (and PrimCheck)
RevisionTrees  CouchDB and PouchDB
  MC_Revisions, RevisionProofs
```

### 2.1 Replication: HLV, ISGR

A vector is a current version (source and number) and a history `pv`; an absent entry is 0, which `get_value`
returns too. The merge versions `mv` of the source are left out: no step of the modelled topologies produces
one, because the resolver's two outcomes write `pv` only. The variables correspond to the state tuple of
`sg_model.py`: `docs`, `seqs` (a gateway's feed position), `ckpt` and `inflight` per replication, `pcs`; `clock`
counts local writes as the source's `now` does; `writes` is a history variable. One action per outcome of
`put_existing_current_version`, each with the install, checkpoint and in-flight updates of `repl_actions`.
`RecheckTombstonePath` is the source's switch for the dominance re-check.

`VersionGossip` is the abstract specification: vectors that only stamp, join, copy and drop. With the re-check
`ISGR` implements it (`ImplementsGossip`); without it a tombstone may move a vector back.

### 2.2 Federations: Federation, Propagation, Channels

The registry operators (`sig`, `rho`, `f`) are constants and the record `Common` of the source is the list of
named assumptions, which TLC evaluates on every instance and the proofs use. `FedMachine` applies an event and
repairs everything at once. `Propagation` separates the event from merges of *current* values; `Channels`
extends it: the same events over the same registries, but sending is separated from arriving, with versions. Both are shown to implement `FedMachine` under the mapping
`fed <- N(cs)`: complete the propagation of what you see. A channel is a set: versions to one target strictly
increase, so no two projections in flight to it are equal. A snapshot is cut down to the sources of the target,
which by `c_local` is all the merge reads. The final round of the source runs at the end; here late deliveries
may arrive between its sends and after it, which is more behaviour, not less. The variable `versioned` says which
merge the targets use; it is chosen at the start and never changes, so that one run and one proof cover both.

### 2.3 Governance: Rewriting, AtomicRepair, Governance

The registry is again a set of constant operators. `Governance` has the two rules of `step` (`st_apply`,
`st_comp`), `AtomicRepair` the one of `astep`; both reduce one start in several runs at once, which is how
"any two reductions to a normal form end alike" becomes an invariant (`Converged`). The hypotheses of the
source (`wfc`, `cc1_coenabled`, `cc2`, `enabled_after_*`, and that states and buffers are closed under the
operators) are definitions over a set of configurations, so that a run can ask them where it goes, a theorem
can assume them everywhere, and another theorem can show that certified rules meet them. `rho_star_reach` becomes an equation: iterated compensation is the state itself if
it is valid and otherwise that of the next step.

### 2.4 Rules: Rules, RuleMachines, Registry

`Rules` is `AstChecker.v`: expressions, predicates, clamped writes, first-violated repair, fuel, the guarded
step that normalises even where the guard is false, and the five parts of `checkBuild`. The field `go` of a
machine selects the arithmetic: the checker's, or the runtime's, which wraps at `MaxAbs` and stores Booleans as
"non-zero". The source promises that a certificate makes the two the same. The expressions and predicates are
constants, `Expr` and `Pred`: sets that hold the parts of each member, with a `height` that falls from an expression to
its parts. That is all the source's inductive types say of a tree that matters here, and it lets evaluation, the bounds and
the intervals be recursive *functions*, which can be proved about. `RuleMachines` holds the regression
cases of the oracle with the counterexample of `AtomicRepair.v` and the witness of `CausalReplay.v`; the
verdicts of `checkBuild` on them are those of `extraction/tests/cases.tsv`. The runs
give `Expr` and `Pred` as `RuleExprs` and `RulePreds`: expressions of at most one operation, and the comparisons of one with an
atom, which hold all that these machines are made of (`MachinesAssumption` checks it). In `Registry` the machines
are a constant too (`MachinesAssumption` is the type of the source's record); it runs a machine as a
registry of `Rewriting`: `rho` is `repair1`, `rho_star` the table of normal forms, `Phi` the repair depth, and
an event is enabled when it is independent of all that precede it in the buffer, so that the orders a run may
take are exactly those `Trace.tequiv` relates. With no pairs declared that is every order. `MC_AtomicRepair` and
`MC_Governance` say in an assumption, `RegistryAssumption`, that the registry which runs is the one of the certified
machines; their configurations give it the machines of `RuleMachines`, the theorems of section 4 any machines.

### 2.5 Oracles on tables and the commands: Blocks, TablePairs, TableOracle, FastOracle, CompactOracle, Tokens, TableCheck, RuleCheck

`Blocks` is the memory of the generated oracles: blocks of `B` entries and tries that branch `B` ways (16 in the
source, whose decision trees over 16 digits are an index into a sequence here). `TableOracle` takes the lookups as
operators, as `check_fn` takes functions. `FastOracle` is the one pass over the cells (the recursion of the tries is written with functions, so that it can be proved about); `CompactOracle` builds tables
from the rules in the two ways of the source, including a column that begins inside a block and the suffix lists the
states are built from. `TableCheck` and `RuleCheck` are the commands from the first token to the exit status, one
action per token or form, with every early exit; `RuleCheck` keeps on reading after a word outside the fragment, as
the source does, and decides at the end. `TableCheck` goes on after the verdict: two replicas run the accepted tables,
one some independent events behind the other, which is what the verdict is for.

### 2.6 Numbers: Prims, Numbers, Derived, PrimCheck

`Prims` is `prims.go` on words of which `Half` are negative. `Numbers` and `Derived` are the Rocq definitions on
`nat`, `positive`, `N` and `Z`, over constructors that are parameters: instantiated with the integers' own digits they
are what Rocq computes, instantiated with `Prims` they are the Go that is generated for them, where building a number
may stop. `PrimCheck` calculates on both and on the exact integers, one operation after another, so that an
intermediate value may be where the machine stops.

### 2.7 The translator: MiniML, Gogen, GoMachine

`MiniML` is the extracted language as `json.go` reads it, with its meaning: call by value, first matching case,
integers without a bound. `Gogen` is what `main.go` refuses and what it emits, as a sequence of Go statements over
names; the types it infers are needed only to write the Go down and are left out, with the strict reading of JSON.
`GoMachine` runs the statements with a heap of variables, so that a closure and the loop that made it share or do not
share a variable as Go has it (`FreshCopies` is the copy `emitGlobal` makes).

### 2.8 Revision trees: RevisionTrees

A revision has one parent in the history of its document, so a tree is the set of its revisions and a document's
trees are a set of such sets. `RevisionTrees` has the merge and the stemming of both servers on these sets, the repair
that CouchDB falls back to when one revision turns up in two trees, and the leaf filter in front. The four servers
are CouchDB's model as committed to (`couch_model.py`), the same without the filter (`couch_model_posthoc.py`),
the same with stemming left to compaction, and PouchDB's. The machine receives any of the documents of one of its
`Scenarios` (a set of documents and a limit) in any order; `MC_Revisions` gives those of `compute.py`. The abstraction was checked against the Python: on every
order of S1, S2, S3 and their variants in `MC_Revisions`, the four functions give the same trees.

## 3. What the runs check

| Run | Instance | Shows | States |
|---|---|---|---|
| `isgr_live` | pushAndPull, B's clock behind, 2+2 live writes, 2 in flight | gateways agree at rest and eventually stay in sync; a write with a higher version than the one served was itself replaced; no gateway forgets a version | 3361 |
| `isgr_versions` | pushAndPull, A's clock behind, 2+2 writes or deletions, 2 in flight | version numbers stay meaningful even where the gateways end up different; nothing travels back to its author; replication always comes to rest | 50911 |
| `isgr_recheck` | both resolve, one side deletes and the other's clock is behind, re-check on | agreement, no overwritten version served, a copy that has seen a write's version has seen all that write was made on, the gossip refinement | 24164 |
| `isgr_p8` | search.py's P8 | violation: see section 5 | - |
| `isgr_crossing` | both resolve, one revision in flight, re-check on; a deletion and a write on one side, one write on the other | violation: see section 5 | - |
| `channels_chain` | a projection of a projection, plain and versioned merge | versioned: what is in flight to a served target is refused, served targets stay settled; plain: agreement once propagation is completed from outside; both: refinement of the federated machine | 53090 |
| `propagation_shortcut` | four registries with a shortcut, a stale start, the static condition fails | the reachable condition holds, agreement, refinement | 243 |
| `atomic_repair` | every certified machine of `RuleMachines`, from valid states and the zero state, three events | convergence in every admissible order, equal buffers mean equal states, runtime equals checker | 76576 |
| `governance` | the certified machines with CC2, from invalid states too, three events | hypotheses met wherever runs go, measure decreases, termination, convergence, refinement of atomic repair | 47800 |
| `front_ends` | `rulecheck` on every machine of `RuleMachines` with forms dropped, repeated, exchanged, added or changed; `tablecheck` on every table of two states, tables of three, and tables with a token lost, added or changed | the verdict is the reference checker's, the printed reason holds, the oracle over tries answers as the one over functions, the packed tables as the listed ones, replicas of accepted tables converge | 51614 |
| `goextract` | the translation's own examples, every small loop with an accumulator, three programs to refuse; calculations on 5-bit words | the Go computes what the term means, tail calls do not deepen the stack; Rocq, machine and exact integers agree until a stop, and stops happen only outside the range | 13632 |
| `revisions` | S1, S2, S3 of `compute.py`, S1 and S3 with other limits; four servers; any order, any repetition | heads survive, each as one leaf, late stemming is exact, an immediate repeat changes nothing where CouchDB validates, and the resurrecting orders are those of P3 | 197263 |

Each property has a mutant: a definition changed as a plausible bug would change it, under which the run finds
the property violated. The mutated forms stand in the modules, marked as mutations.

Symmetry is not used: the gateways differ in clock and program, and the two runs of a start are needed in both
orders under the temporal properties.

### Bounds, and why they are enough

*Replication.* Two gateways, at most four local writes, at most two revisions in flight per replication. These
are the bounds of the repository's search, and the number of distinct states TLC finds for its program P8
equals the number the search visits in each of four settings tried (1467 and 1336 in T1 without and with
re-check, 3076 and 2610 in T2). Two revisions in flight are what reordering needs; P8 diverges with two and not
with one. The safety properties of `isgr_versions` also held with both sides resolving (256875 states with one
revision in flight, 2056354 with two), which is too long for a routine run. With three gateways and the
re-check a gateway can forget a version, so `KnowledgeNeverShrinks` is claimed, and proved, for two only.

*Channels.* `MaxVersion` = 2 projections per target before the final round, each event at most once or twice:
one projection can be overtaken by another, arrive twice and arrive after the final round. The proofs
(section 4) remove these bounds for the safety properties.

*Rules.* `MaxAbs` = 15 stands for 2147483647, and the literals of the overflow case are scaled with it; every
variable and intermediate value of the accepted machines fits. Three buffered events let two be swapped around a third,
and include repeats of one event. `governance` starts from every state of machines with at most eight states
and, in the larger ones, from the upper half of the first variable, the only one whose invariant can fail, with
the others at zero; `atomic_repair` starts from every valid state and the zero state of each machine.

*Front ends.* `B` = 2 and suffixes of 4 states make tries of several levels and columns that straddle blocks out of
the few states a small machine has; a box is refused from 73 states on, and among the edits are variables with that
many values. `MaxNat` = `MaxAbs` = 7 is the runtime's largest integer: literals at the limit occur.

*Arithmetic.* Words of five bits (`Half` = 16) hold every carry, sign and wrap the operations tell apart, and all words
are tried with all operands of a word; the constants of `Semantics.v`'s samples are scaled with the word. Exponents go to five, to
two for unary numbers, whose powers are the deepest recursions. Six bits exceed the evaluator's stack; the theorems
of `PrimsProofs` cover every width.

*Revisions.* Four or five revisions with a limit that cuts once or twice, or not at all, are the scenarios of the
source. S2 has seven documents and all their 5040 orders; repeats are not bounded, because only the first arrivals are
recorded.

*Deadlock.* Checking is off where the system stops by itself: programs end, buffers empty, files are read to the end.
It is on in `goextract`, where compiled Go must always have a next statement until it has returned, and in
`revisions`, where a document can always arrive again.

### Fairness

`ISGR`: weak fairness of each replication, which runs continuously in the system modelled; local writes are
never forced. `Governance`: weak fairness of each run, that is, a reduction that can go on does; the source
proves termination of all reductions, so no choice of rule is assumed fair. No liveness is claimed of channels
and propagation: their source has no scheduler. The front ends, the translator and the revision models are sequential
programs that some other process feeds; what they promise is safety.

## 4. What is proved

All theorems hold for every value of the constants, under the named assumptions only.

*`ISGRProofs`* (any number of gateways, any topology, clocks, programs and bound in flight, re-check or not):
type correctness (not in a run: the theorem covers it); `VersionsSound`, and from it that a source's own versions are the newest anywhere, that a
current version determines the body, and that a source never takes back a version. The inductive invariant
`VersionInv` is the conjunction of four statements none of which is inductive alone: versions in a history
exclude the current source (without it, `KeepLocal` could carry a stale entry), own versions are newest (a fresh
version must be above every copy's), nothing returns to its author (or a gateway could overwrite its own newest
version with an older copy), and a current version identifies its body. The proof has one lemma for the local
write, one for a step that only moves the checkpoint or the set in flight, and one for a step that installs a
document.

*`ISGRProofs`, two gateways* (any replications between them, clocks, programs and bound in flight). With the re-check, or
without deletions, `KnowledgeGrows` and `ReplicationGossips`: no gateway forgets a version, and every step is a step of
`Gossip`. The invariant `GossipInv` says that a gateway knows what it has sent, that revisions in flight are ordered by what
they know, and that one which arrives late tells the receiver nothing new (`LateUnseen`); from it every install is
the *join* of two vectors (`InstallIsJoin`), although `KeepLocal` and `KeepIncoming` each leave a part of one vector behind.
With three gateways this fails, by TLC.
The same join makes knowledge *causal*, as `is_in_conflict` and `change_not_missing` need, which look at current versions
only: `CausalKnowledge` says that whoever has seen the version of a write, stored or under way, has seen all the write was made on. A new
write is above every copy's numbers (`OwnVersionsAreNewest`), so nobody has seen it; and what a merge has seen, one of the two
merged had. Where tombstones replace tombstones untested (`isgr_versions`), TLC finds it violated.
Without deletions, and linked both ways with a resolver at one end at least, the gateways converge: `RestConverges`,
`RestLastWriteWins` and `RestNotOverwritten` are the three properties of rest, under `TiesSettled` (only one side resolves, or no
two versions of different gateways share their number); `OneResolverConverges` has T1 for every program and clock. The argument:
a copy knows exactly the writes stamped up to what its vector says, *beating* (was made in view of, or concurrent with a higher number)
has no two-way pairs, and a gateway that has seen the other's current version and does not serve it serves one that beats it
(`HeldBeats`); the feed has offered what is unread (`FeedSettled`), so at rest each gateway has seen the other's current version,
and if they differed each would beat the other. Every hypothesis is needed: three gateways can forget, a deletion
can split them (section 5), and equal numbers leave each side with its own copy when both resolve. The instance of `isgr_live`
meets all of them.

*`ChannelsProofs`* (any acyclic federation that meets the per-registry conditions, in both merge modes):
type correctness; `VersionsBounded`; and, with the versioned merge, `ServedRefuseStale`; `ServedTargetsSettle`, that a target served by the final round agrees
with its sources from then on, whatever still arrives; `FinalRoundSettles`, that after the last target the
whole federation is consistent. The argument: versions are bounded by the last one sent, so the final
projection is newer than all in flight, so a served target refuses everything and stands still, so its own
targets, served later, read a value that no longer moves. No condition across events is needed for this part.

*`ChannelsProofs`, Parts 1 and 3* (any acyclic federation; an induction along `Order` done with
least elements). Part 1 shows what a pass computes: `NormalForm`, that N(t) is the state in which every shared part is the
image of N(t)'s own sources, and `SettledOnce`, that there is only one. So two states that look the same to every
repair have one normal form (`SameNormalForm`), a projection of whatever age leaves it (`MergeInvisible`, by absorption), and
an event that commutes with the repair of its registry there moves it by one step of the federated machine
(`EventVisible`). From these: `CommutingRunsImplementFed` and, under the static condition, `ImplementsFederated`, the
refinement that `channels_chain` checks, which needs XU and not C2; `FinalRoundShowsFed`, that the registries
then hold that machine's state themselves; and `PropagationImplementsFed`, the refinement of `propagation_shortcut`, under
XUR in place of XU (in that instance XU fails and XUR, checked by the run, holds). `Channels` extends
`Propagation`, so one set of lemmas serves both, and `DistConv` and `ImplementsFed` are one property of either specification.

*Federations converge* (the same module; any acyclic federation with finitely many events). `RunsConverge` and
`FinalRoundConverges` under XU and C2, and `PropagationConverges` under C2 and XU at the reachable states (`ReachableXU`):
the state a run completes to is that of its events in one fixed order. The federated machine forgets the order of two events (`OrderForgotten`): of
one registry they commute by C2, of two registries they touch different components, and the repairs in between do not tell.
So an event put anywhere into a list comes to the same as the event applied last (`RunInserted`), and performing an event inserts it into the listing of
those performed (`ListingInserted`). A fold over a list is handled through the one function that solves its recursion, whose existence is the
library's theorem for recursion over the naturals. The instances of both runs meet the hypotheses: `MC_Channels` and
`MC_Propagation` assert the static conditions, and `propagation_shortcut` checks XUR, where XU fails.

*`RewritingProofs`, `AtomicRepairProofs`, `GovernanceProofs`: rewriting* (any registry, any buffer, any number of runs).
The first part of `RewritingProofs` works on configurations: two removals of different events from a list commute; two deliveries
from one configuration close a diamond (CC1); every delivery shortens the buffer; so, taking a shortest buffer
with two ends, there is one end (`OneEnd`). Induction over the naturals is done with least elements, which need
no operator argument. `AtomicRepairProofs` carries it to the machine with the invariant that every run is
reached from its start: `UniqueNormalForms` needs CC1 where two events are enabled together and that neither
disables the other, and nothing about repair. `SameEventsAgree` compares runs that are still under way: an event that one
run has delivered could have been delivered first (`DeliveredFirst`, by the exchange of neighbours), and how often an event still waits tells
how often it was delivered, so runs with one buffer have one state although the events between were enabled in different orders. `GovernanceProofs` first shows, by induction on the potential, that
finishing a repair first makes no difference to a later event (`RepairCommutes`: this is where CC2, the decreasing
potential and persistent enabledness are used). From it: `ImplementsAtomicRepair` (the refinement that the run
checks), `EveryStepDecreases` and `UniqueNormalForms`, with the invariant that a run *read through the repair it
owes* is reachable in atomic repair. The assumptions are `AtomicConditions(Config)` and
`InterleavedConditions(Config)`: the hypotheses of `GovernanceCausal.v`, with CC2 asked only of events that can be
delivered, which is weaker than the source asks. The run `governance` checks the same conditions at every
configuration the runs of its machines reach.

*The same modules: certified registries* (any machines, any rules, any depth of expressions, any number of runs). The theorems
above assume conditions on the governed events; these derive the conditions from the certificate, so that what is left to assume is
only what an oracle decides: `checkBuild` of each machine.

- *The arithmetic of the certificate is sound.* `ValueBounded`: computed without overflow, an expression lies within `bnd` and
  between `lo` and `hi`, in every state. `SameValue`: if the bound fits a machine word, then no sum on the way wraps. From there up the
  language: predicates (`SameTruth`), writes (`SameStored`: a Boolean variable that is never given a negative value stores
  what the clamp stores), transforms as their assignments in order (`Assigns`, `SameApply`), the first violated invariant and its repair
  (`SameViolated`, `SameRepair`), the whole repair (`SameNormalForm`), and the step of an event (`SameStep`). In the machine it is
  `RuntimeComputesModel`: in every state a run reaches the runtime computes what the checker did.
- *The certificate suffices.* `CertificateSuffices`: the domain of the certificate is closed under governed events, because every repair
  ends in a valid state; events that can be delivered together are independent, since each can pass the other (`CoEnabled`), and
  independent ones commute (`GovernedCommute`); and a delivery leaves another possible (`StillEnabled`). Hence `CertifiedConverge` and
  `CertifiedAgree`, with no hypothesis but the registry's.
- *CC1 and CC2 suffice for interleaving.* In a machine that always becomes valid, `phiA` falls with every repair and the normal form stays
  (`RepairIsNearer`, for which more fuel must change nothing once there is enough, `EnoughFuel`). With the commutation and absorption that
  `Interleavable` asks on the box, `InterleavableSuffices` gives every hypothesis of `Governance.v`, hence `HypothesesHold` (the
  run's `MeetsHypotheses`), `InterleavableConverge`, `InterleavableDecreases` and `InterleavableImplements`.

The means is the second part of `RewritingProofs`. A recursive function is what `CHOOSE` picks among the solutions of an equation, so
each needs a solution to exist. `RecursiveFunction` builds one for any equation that looks only at what is lower, out of
solutions below each height, and `OneSolution` says there is no other; structural induction over expressions is then a least counterexample
by height. Folds over the assignments of a transform are folds over the positions of a sequence (`FoldExists`), and iterated repair is
a function of fuel and state (`Ended`, `NormalizeStep`).

*`TableCheckProofs`* (any files, any number of states and events, any declared pairs). `TableTypeCorrect`: a file
that is read to the end leaves a full table of numbers that it held, whatever the tokens. `AcceptedTablesConverge`:
the replicas of an accepted table agree whenever they have had the same events. The invariant says what the late
replica lacks (`Behind`): the other is exactly one step of the withheld events ahead of it. It survives an event that
passes the withheld ones because accepted tables commute on the states the late replica can be in, and those are valid, or zero,
because every step of an accepted table lands on a valid state (`Sound`).
`TrieIsList` (any list, any blank, any block size): the trie of a list answers every lookup as the list does, up to a depth that
depends on the list, with division in place of digits. The invariant of the descent is `Reached`: at each depth the trie
reached is the one that holds the entry, its first entry and its span exact. `FastOracleAgrees`: `check_fast`, which reads
every step target's cell from that trie and every column in blocks, and `check_fn` give the same verdict on every table. The two even agree on
tables whose steps leave the states, where a missing cell and a missing row both read as zero (`Entries`).

*`PrimsProofs`* (any word width). Sum, difference, opposite, product, the digits and the division of naturals are exact or
stop, and stop only when the exact result is no word. The product is the long one: wrapping subtracts a multiple of
the number of words, and dividing the wrapped product back finds every overflow except the least integer times
minus one, which has its own test.

*`RevisionProofs`* (any history of revisions, any documents with any part of their histories, any limit, all four databases).
`NoWriteLost`: the delivered revisions that nothing delivered descends from are leaves, and all leaves were delivered, before a
compaction and after it. The invariant is not about leaves at all. It says that every tree has one root and, with a revision,
all of its history down from the root (`RootedAt`); that roots differ; that every node is in some delivered history; that
the heads are somewhere in the trees; and that all leaves were delivered (`Shown`). A head that is anywhere in such trees is a
leaf, because a node below it would be in a delivered history that contains the head (`HeadsAreLeaves`). So a merge need not be
shown to keep leaves, only nodes, and a cut only has to keep the leaves as nodes. The leaf filter is safe for the same
reason: what would be no leaf is no head. Distinct roots need the *order* in which CouchDB looks for a tree to join: the first
that meets the path cannot leave another one with the root it ends up with (`Merging`). PouchDB's grafts are an induction over the trees in their
order, with the invariant that a tree which starts on the path below its first revision is part of it altogether (`Grafting`).
`HeadsAreKept` adds that a head is the leaf of one tree only. CouchDB gets that from the repair: paths come back in the order of
their roots, so each meets at most one tree and no revision is in two (`MergingApart`). PouchDB gets it
from `LongEnough`: then every branch goes back as far as the limit (`Deep`), so cut branches with one leaf are equal.
`LateStemmingIsExact`: where histories are complete every tree starts with a first revision (`Whole`), so nothing hides
below another tree's leaf. `RepeatsAreIgnored` is the action property `RepeatChangesNothing`: a new revision is a leaf after the merge
and still there after the cut; for CouchDB as it stems it is still a *leaf* if nothing had to be repaired
(`NothingToRepair`), and section 5 shows that it need not be otherwise. Both recursive functions, over the sets of paths and of trees, are solved for once and
for all in `SetRecursion`, and an induction over subsets takes a smallest bad one.

### Only model-checked

Liveness (`EventuallyInSync`, `Quiesces`, `Terminates`) and everything that would need ENABLED. With deletions
replicated, `QuiescentAgreement` and `NoOverwrittenVersion` hold of the clocks and program of `isgr_recheck` and not of
all: with the clocks level, the same program diverges. `XUR` holds of the instance. What the certificate
*implies* is proved; that the commands *compute* it stays with TLC (`OraclesAgree`, `VerdictIsCheckBuild`):
`RuleCheck` reads nested forms and `CompactOracle` lists a box with recursive operators. So does what
the translator's Go computes (`GoMatchesRocq`, `TailCallsLoop`) and the recursive number definitions (`RocqIsExact`, `ExactOrStopped`, `StopsOnlyOutside`):
what such an operator computes for every input is an induction over data.
The orders that resurrect a deleted document (`ResurrectionOrders`) are those of one scenario.

## 5. Findings

*Tombstone over tombstone* (`isgr_p8`). The model installs a tombstone over a tombstone with no conflict check.
A delete, a re-create and a delete on one side against one write on the other leave a deleted document on one
gateway and a live one on the other, at rest. The documentation quoted in `research/predictions/P4.md:84-86` says
that replication with the default resolver converges, deletions included. This is the repository's own main
finding about its model; its live run did not reproduce it.

*The mechanism is wider than the report says* (`isgr_crossing`). `research/predictions/p4/REPORT.md:133-135` says that the
divergence disappears with one revision in flight, with a dominance re-check, and does not occur when both
sides resolve. That is so of the programs the search lists. With `a1` at A and `del`, `b2` at B the gateways diverge with
all three in place, and no tombstone ever meets a tombstone: at A the deletion beats `a1`, which has the higher number, because
`lww_winner` prefers a tombstone to a live revision before it compares numbers; at B, where `b2` has replaced the deletion,
the same `a1` beats `b2` by its number. Each gateway then knows the other's current version and skips it.

Smaller observations, which no run refutes: agreement at rest compares two tombstones by body only, as the
source's `canon` does; accepting a projection with a version *equal* to the last applied one would do no harm in
`Channels`; two regression machines (`invalid_state` and the counterexample of `AtomicRepair.v`) are certified
and yet may not be run with repairs interleaved, as the source says of the second; `goextract/README.md` says that
`cmd/tablecheck` uses `check_fast`, and `cmd/tablecheck/main.go:169` calls `check_fn`; operations on Z that are
generated, not mapped, stop at the least integer, because matching it takes its opposite; the Go of a partial
application puts off the panic of an absurd argument until the closure is called; CouchDB's model without the leaf filter is not idempotent, since a revision that arrives
twice in a row can join trees the second time, and with the filter it is not either where the repair joins what reaches beyond the limit
(limit 2; 1, 2 below 1 and 5 below 2 each come alone, then 4 below 3 below 2 with its full history, twice: the second arrival
changes the trees); PouchDB's model can show one leaf in two trees where a history arrives shorter than the limit
(limit 4; of the chain 1-2-3-4 come 3 alone, then 2 and 4 with two and three entries). The proofs name the conditions
under which neither happens.

## 6. Not modelled

*No program, only theorems.* Causal and at-least-once delivery, streams, reconfiguration, and the cyclic networks
are theorems over arbitrary step functions, with no code in the repository that delivers, streams or reconfigures; the
modelled programs have their own reordering, repetition and late arrival. The step between two deliveries, or on
either side of a switch, is the one in `Rewriting`. Self-stabilization and the CRDT modules recover outside theorems.
Cohomology, sheaves, cutoffs, hardness and lossy minima have no executions.

*Decided by evaluation.* The matching of P2 is one loop of nine steps that `StableMatchingP2.v` evaluates; the scripts
of the settlement game and of the hard-cell and lossy searches each enumerate or sample their own variant.

*I/O.* The harnesses that drive real servers, the live runners, and scripts, papers and the site.

*Left out of modelled parts.* In `gogen`: type inference, the layout of the Go and the decoding of JSON, and the generated data
types of programs other than those translated here; in the oracles: the older `check` and `compensationFree`, which `checkBuild`
supersedes; in the front ends: the lexing of files into tokens and forms, and the OCaml commands of
`coq/extraction`; of the revision models: `gen_gsm.py` and the statistics `compute.py` prints.

*What could follow.* The tables built from rules shown to be those of the rules (`checkBuildT`, `checkBuildC`), so that `OraclesAgree`
would have a proof too; and a weaker condition than `LongEnough` for PouchDB.
