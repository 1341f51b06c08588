------------------------------- MODULE Blocks --------------------------------
(***************************************************************************)
(* The memory of the fast and the compact oracle (oracle_gen.go): lists    *)
(* held as blocks of B entries and tries that branch B ways.  B is 16 in   *)
(* the source, whose decision trees over the 16 digits are a sequence's    *)
(* index here: a digit too large takes the tree's last branch.             *)
(* Positions, block numbers and digits count from 0, as in the source.     *)
(***************************************************************************)
EXTENDS Integers, Sequences, SequencesExt

CONSTANT B   \* entries of a block

ASSUME BAssumption == B \in Nat /\ B > 1

Digit(d) == IF d < 0 THEN 1 ELSE IF d < B THEN d + 1 ELSE B

nth(k, l, z) == IF k < Len(l) THEN l[k + 1] ELSE z
hd(z, l) == IF l = <<>> THEN z ELSE l[1]
tl(l) == IF l = <<>> THEN l ELSE Tail(l)
mapT(f(_), l) == [i \in DOMAIN l |-> f(l[i])]
hi16(a) == a \div B

\* The entries of a list in blocks, the last one filled with z.
chunk(z, l) ==
    [g \in 1 .. (Len(l) + B - 1) \div B |->
        [i \in 1 .. B |-> nth((g - 1) * B + i - 1, l, z)]]

zb == [i \in 1 .. B |-> 0]

dsel(d, t) == t[Digit(d)]
dselH(d, t) == t[Digit(d - B)]
bmap(g(_), t) == [i \in 1 .. B |-> g(t[i])]

qget(z, bs, q, d) == IF q < Len(bs) THEN dsel(d, bs[q + 1]) ELSE z

\* f holds on the entries of a block, the first numbered b, below m.
bfa1(f(_), m, b, t) == \A i \in 1 .. B : b + i - 1 < m => f(t[i])

bfaL(f(_), m, b, bs) ==
    \A g \in DOMAIN bs : bfa1(f, m, b + (g - 1) * B, bs[g])

\* Entry B * q + s of the blocks, for s below 2 * B.
rdq(t, q, s) ==
    IF q >= Len(t) THEN 0
    ELSE IF s < B THEN dsel(s, t[q + 1])
    ELSE IF q + 1 = Len(t) THEN 0
    ELSE dselH(s, t[q + 2])

\* (Mutation: the second block never contributes.)
Unshifted(o, b0, b1) == b0

\* B entries of two blocks, from entry o of the first.
realign(o, b0, b1) == SubSeq(b0 \o b1, Digit(o), Digit(o) + B - 1)

\* At most k blocks of a list that starts at entry o of its first block.
alignN(k, o, zk, t) ==
    [i \in 1 .. (IF k < Len(t) THEN k ELSE Len(t)) |->
        realign(o, t[i], nth(i, t, zk))]

\* A list's suffixes, the shortest first.
sfx(l) == [i \in DOMAIN l |-> SubSeq(l, Len(l) - i + 1, Len(l))]

(***************************************************************************)
(* Tries.  A leaf holds a block of entries, a node a block of tries.       *)
(***************************************************************************)
VL(x) == [leaf |-> TRUE, of |-> x]
VN(c) == [leaf |-> FALSE, of |-> c]

ztV(z, d) ==
    LET empty[i \in 0 .. d] ==
            IF i = 0 THEN VL([j \in 1 .. B |-> z])
            ELSE VN([j \in 1 .. B |-> empty[i - 1]])
    IN  empty[d]

\* The tries of depth d over a list, and one without entries after them.
levelsV(z, l, d) ==
    LET level[i \in 0 .. d] ==
            IF i = 0 THEN mapT(VL, chunk(z, l))
            ELSE mapT(VN, chunk(ztV(z, i - 1), level[i - 1]))
    IN  level[d]

\* (Mutation: a trie too shallow by one when the entries fill it.)
spansBut(p, m) == B * p >= m - 1

spans(p, m) == B * p >= m

\* The fewest levels of nodes m entries need, and the entries a child of the
\* root then spans.
depthV(m) ==
    LET power[d \in 0 .. m] == IF d = 0 THEN 1 ELSE B * power[d - 1]
        depth == CHOOSE d \in 0 .. m :
                    /\ spans(power[d], m)
                    /\ \A e \in 0 .. d - 1 : ~ spans(power[e], m)
    IN  [d |-> depth, p |-> power[depth]]

of_listV(z, l) ==
    LET g == depthV(Len(l)) IN
    [vp |-> g.p, vlim |-> B * g.p,
     vroot |-> nth(0, levelsV(z, l, g.d), ztV(z, g.d))]

\* From a trie whose first entry is b and whose children span p to the one
\* below it that holds entry k.
below(u, k) ==
    IF u.t.leaf THEN u
    ELSE LET i == Digit((k - u.b) \div u.p) IN
         [p |-> hi16(u.p), b |-> u.b + (i - 1) * u.p, t |-> u.t.of[i]]

\* Entry k of a trie.  (It is not as deep as its children span entries.)
vget(v, k) ==
    LET at[i \in 0 .. v.vp] ==
            IF i = 0 THEN [p |-> v.vp, b |-> 0, t |-> v.vroot]
            ELSE below(at[i - 1], k)
        leaf == at[CHOOSE i \in 0 .. v.vp : at[i].t.leaf]
    IN  dsel(k - leaf.b, leaf.t.of)

vlook(z, v, k) == IF k < v.vlim THEN vget(v, k) ELSE z
=============================================================================
