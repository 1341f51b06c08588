----------------------------- MODULE FastOracle ------------------------------
(***************************************************************************)
(* The table oracle over lists, check_fast (TableFast.v, oracle_gen.go):   *)
(* one cell for each state, a trie over the cells, and one pass that looks *)
(* up the cell of every step target once.                                  *)
(***************************************************************************)
EXTENDS TablePairs, Blocks

\* An event as a block number and a digit.
rpairOf(p) ==
    [qa |-> hi16(p[1]), da |-> p[1] % B, qb |-> hi16(p[2]), db |-> p[2] % B]

zcell(n) == [lk |-> n, lnf |-> 0, lcol |-> <<>>]

cell_ok(n, c) == c.lk < n /\ c.lnf = c.lk

\* The blocks of all the rows for the g-th group of B states.
hgroup(g, rowsB) == chunk(zb, mapT(LAMBDA r : nth(g, r, zb), rowsB))

\* The cells of the states, whose columns are cut B states at a time.
cellsB(nfl, rowsB) ==
    [i \in DOMAIN nfl |->
        [lk |-> i - 1, lnf |-> nfl[i],
         lcol |-> mapT(LAMBDA t : bmap(LAMBDA u : dsel((i - 1) % B, u), t),
                       hgroup(hi16(i - 1), rowsB))]]

cells(NFl, Tl) == cellsB(NFl, mapT(LAMBDA row : chunk(0, row), Tl))

\* T[a][x_b] = T[b][x_a], read from the cells of the step targets.
pair_okI(z, ls, r) ==
    qget(0, qget(z, ls, r.qb, r.db).lcol, r.qa, r.da)
        = qget(0, qget(z, ls, r.qa, r.da).lcol, r.qb, r.db)

commI(z, ls, rp) == \A r \in rp : pair_okI(z, ls, r)

state_okI(n, nE, ct, rp, s, c) ==
    LET look(k) == vlook(zcell(n), ct, k)
        ls == mapT(LAMBDA t : bmap(look, t), c.lcol) IN
    /\ cell_ok(n, look(c.lnf))
    /\ bfaL(LAMBDA d : cell_ok(n, d), nE, 0, ls)
    /\ s < n /\ (c.lnf = s \/ s = 0) => commI(zcell(n), ls, rp)

scanI(n, nE, ct, rp, cs) ==
    \A i \in DOMAIN cs : state_okI(n, nE, ct, rp, i - 1, cs[i])

check_fast(n, nE, NFl, Tl, P) ==
    LET cs == cells(NFl, Tl) IN
    /\ pairs_okW(nE, P)
    /\ scanI(n, nE, of_listV(zcell(n), cs),
             {rpairOf(p) : p \in pairsOfT(nE, P)}, cs)
=============================================================================
