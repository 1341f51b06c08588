-------------------------------- MODULE Tokens -------------------------------
(***************************************************************************)
(* The words of the commands' input files: keywords and decimal numbers.   *)
(***************************************************************************)
EXTENDS Integers, Sequences

CONSTANT MaxNat   \* the largest number accepted (2147483647 in the source)

ASSUME MaxNatAssumption == MaxNat \in Nat \ {0}

Key(w) == <<"key", w>>
Num(v) == <<"num", v>>

\* natOf accepts it.
IsNat(t) == t[1] = "num" /\ t[2] \in 0 .. MaxNat

\* Entries i, i + 1, ..., i + k - 1 of a file are numbers.
AreNats(toks, i, k) ==
    i + k - 1 <= Len(toks) /\ \A j \in i .. i + k - 1 : IsNat(toks[j])

\* Pairs a1 b1 a2 b2 ... of k events below ne, from entry i on.
PairsAt(toks, i, k) == [j \in 1 .. k |-> <<toks[i + 2 * j - 2][2], toks[i + 2 * j - 1][2]>>]

PairsBelow(ps, ne) == \A j \in DOMAIN ps : ps[j][1] < ne /\ ps[j][2] < ne
=============================================================================
