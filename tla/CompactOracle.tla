---------------------------- MODULE CompactOracle ----------------------------
(***************************************************************************)
(* The two table-building rule oracles of oracle_gen.go.  checkBuildT      *)
(* (AstTables.v) lists the box and builds check_fast's cells from the      *)
(* rules; checkBuildC (AstCompact.v) never lists the box, packs the        *)
(* columns NF[s], T[0][s], ... into blocks and reads them through a trie   *)
(* over the blocks' suffixes.  Both promise the answer of checkBuild.      *)
(*                                                                         *)
(* enc numbers the states, the first variable most significant.            *)
(***************************************************************************)
EXTENDS Rules, FastOracle

CONSTANT Suffix   \* the states listed at once (4096 in the source)

ASSUME SuffixAssumption == Suffix \in Nat \ {0}

prodL(ds) == FoldLeft(LAMBDA x, y : x * y, 1, ds)

enc(ds, v) ==
    FoldLeft(LAMBDA acc, i : acc * ds[i] + v[i], 0, [i \in DOMAIN ds |-> i])

prependAll(x, ws) == [i \in DOMAIN ws |-> <<x>> \o ws[i]]

\* The prefixes 0 .. k - 1, each before every one of ws.
layer(k, ws) ==
    FlattenSeq([x \in 1 .. k |-> prependAll(x - 1, ws)])

\* The box in the order of enc.
RECURSIVE boxT(_)
boxT(ds) == IF ds = <<>> THEN <<<<>>>> ELSE layer(ds[1], boxT(Tail(ds)))

\* The longest suffix of variables whose box is no larger than the bound.
RECURSIVE splitSuf(_, _)
splitSuf(bound, ds) ==
    IF ds = <<>> THEN [fst |-> <<>>, snd |-> <<>>]
    ELSE LET ps == splitSuf(bound, Tail(ds)) IN
         IF ps.fst = <<>> /\ ds[1] * prodL(ps.snd) <= bound
         THEN [fst |-> <<>>, snd |-> <<ds[1]>> \o ps.snd]
         ELSE [fst |-> <<ds[1]>> \o ps.fst, snd |-> ps.snd]

\* f over the box of ds, the last state first.
foldD(ds, f(_, _), acc) == FoldRight(f, boxT(ds), acc)

\* The same over the whole box: the prefix enumerated, the suffix listed.
foldB(ds, f(_, _), acc) ==
    LET ps == splitSuf(Suffix, ds)
        R == boxT(ps.snd) IN
    foldD(ps.fst,
          LAMBDA pv, a : FoldRight(LAMBDA w, b : f(pv \o w, b), R, a), acc)

\* The state a guarded event reaches, before repair.
gapp(m, ev, v) == IF evalP(m, v, ev.guard) THEN applyT(m, ev.effect, v) ELSE v

(***************************************************************************)
(* checkBuildT                                                             *)
(***************************************************************************)
\* The cell of state s, with values v; nfs holds the normal forms.
cellOf(m, nfs, s, v) ==
    [lk |-> s, lnf |-> vlook(0, nfs, s),
     lcol |-> chunk(0, mapT(LAMBDA ev : vlook(0, nfs, enc(m.doms, gapp(m, ev, v))),
                            m.evs))]

cellsR(m, nfs, vs) == [i \in DOMAIN vs |-> cellOf(m, nfs, i - 1, vs[i])]

checkBuildT(m, P) ==
    /\ bounded(m) /\ signSafe(m)
    /\ LET bx == boxT(m.doms)
           nv == mapT(LAMBDA v : normalize(m, v), bx)
           n == Len(bx)
           nE == Len(m.evs)
           nfs == of_listV(0, mapT(LAMBDA v : enc(m.doms, v), nv))
           cs == cellsR(m, nfs, bx) IN
       /\ \A i \in DOMAIN nv : allValid(m, nv[i])
       /\ pairs_okW(nE, P)
       /\ scanI(n, nE, of_listV(zcell(n), cs),
                {rpairOf(p) : p \in pairsOfT(nE, P)}, cs)

(***************************************************************************)
(* checkBuildC                                                             *)
(***************************************************************************)
\* The numbers of the normal forms, until one of them is invalid.
p1(m, v, st) ==
    IF ~ st.fst THEN st
    ELSE LET w == normalize(m, v) IN
         [fst |-> allValid(m, w), snd |-> <<enc(m.doms, w)>> \o st.snd]

\* A state's column, in front of the columns of the states after it.
colOnto(m, nfs, v, buf) ==
    <<vlook(0, nfs, enc(m.doms, v))>>
        \o mapT(LAMBDA ev : vlook(0, nfs, enc(m.doms, gapp(m, ev, v))), m.evs)
        \o buf

\* Every B columns are cut into blocks.
p2(m, nfs, v, st) ==
    LET buf == colOnto(m, nfs, v, st.fst) IN
    IF enc(m.doms, v) % B = 0
    THEN [fst |-> <<>>, snd |-> chunk(0, buf) \o st.snd]
    ELSE [fst |-> buf, snd |-> st.snd]

splitJ(j) == [sq |-> hi16(j), sd |-> j - B * hi16(j)]

\* (Mutation: the normal form in front of the steps is forgotten.)
PairOfSteps(p) ==
    [cqa |-> hi16(p[1]), cda |-> p[1] % B, cqb |-> hi16(p[2]), cdb |-> p[2] % B,
     csa |-> splitJ(p[1]), csb |-> splitJ(p[2])]

cpairOf(p) ==
    [cqa |-> hi16(p[1]), cda |-> p[1] % B, cqb |-> hi16(p[2]), cdb |-> p[2] % B,
     csa |-> splitJ(1 + p[1]), csb |-> splitJ(1 + p[2])]

\* The blocks from the one that holds the first entry of state x's column
\* (W entries long) on; L is the number of blocks, ST the trie over sfx.
viewOf(W, L, ST, x) ==
    LET k == x * W
        q == hi16(k) IN
    [vtl |-> IF q < L THEN vlook(<<>>, ST, L - 1 - q) ELSE <<>>, vof |-> k - B * q]

rdj(v, j) == rdq(v.vtl, j.sq, v.vof + j.sd)

alignV(K, v) == alignN(K, v.vof, zb, v.vtl)

pair_okC(ls, r) ==
    qget(0, qget(<<>>, ls, r.cqb, r.cdb), r.csa.sq, r.csa.sd)
        = qget(0, qget(<<>>, ls, r.cqa, r.cda), r.csb.sq, r.csb.sd)

commC(ls, rp) == \A r \in rp : pair_okC(ls, r)

\* Every declared pair commutes at s, if s is valid or the zero state.
state_okC(n, nE, L, ST, spB, rp, s) ==
    LET vs == viewOf(1 + nE, L, ST, s)
        target(qd) ==
            alignV(1 + hi16(nE), viewOf(1 + nE, L, ST, rdj(vs, qd))) IN
    s < n /\ (rdq(vs.vtl, 0, vs.vof) = s \/ s = 0) =>
        commC(mapT(LAMBDA t : bmap(target, t), spB), rp)

scanC(n, nE, Lb, P) ==
    LET ST == of_listV(<<>>, sfx(Lb))
        spB == chunk(splitJ(0), [e \in 1 .. nE |-> splitJ(e)])
        rp == {cpairOf(p) : p \in pairsOfT(nE, P)} IN
    \A s \in 0 .. n - 1 : state_okC(n, nE, Len(Lb), ST, spB, rp, s)

checkBuildC(m, P) ==
    /\ bounded(m) /\ signSafe(m)
    /\ LET r1 == foldB(m.doms, LAMBDA v, st : p1(m, v, st),
                       [fst |-> TRUE, snd |-> <<>>])
           nfs == of_listV(0, r1.snd)
           Lb == foldB(m.doms, LAMBDA v, st : p2(m, nfs, v, st),
                       [fst |-> <<>>, snd |-> <<>>]).snd IN
       /\ r1.fst
       /\ pairs_okW(Len(m.evs), P)
       /\ scanC(Len(r1.snd), Len(m.evs), Lb, P)
=============================================================================
