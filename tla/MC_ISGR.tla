------------------------------- MODULE MC_ISGR -----------------------------
(* Instances of ISGR: the two gateways, topologies, clocks and programs of *)
(* search.py.                                                              *)
EXTENDS ISGR

CONSTANTS A, B

PullAB == [from |-> B, to |-> A, resolver |-> TRUE]
PushAB == [from |-> A, to |-> B, resolver |-> FALSE]
PullBA == [from |-> A, to |-> B, resolver |-> TRUE]

\* T1 and T2 of search.py.
PushAndPull == {PullAB, PushAB}
BothPull    == {PullAB, PullBA}

NoSkew == [g \in {A, B} |-> 0]
ABehind == [g \in {A, B} |-> IF g = A THEN -25 ELSE 0]
BBehind == [g \in {A, B} |-> IF g = B THEN -25 ELSE 0]

Bodies == {"x0", "a1", "a2", "b1", "b2", "b3", "del"}

TwoByTwo == [g \in {A, B} |-> IF g = A THEN <<{"a1", "del"}, {"a2", "del"}>>
                              ELSE <<{"b1", "del"}, {"b2", "del"}>>]
\* One write on one side, a deletion and a write again on the other.
DeleteRecreate == [g \in {A, B} |-> IF g = A THEN <<{"a1"}>>
                                   ELSE <<{"del"}, {"b2"}>>]
\* No deletion anywhere, and deletions by B alone.
LiveOnly == [g \in {A, B} |-> IF g = A THEN <<{"a1"}, {"a2"}>>
                               ELSE <<{"b1"}, {"b2"}>>]
OneDeletes == [g \in {A, B} |-> IF g = A THEN <<{"a1"}, {"a2"}>>
                               ELSE <<{"b1", "del"}, {"b2", "del"}>>]
\* P8 of search.py.
P8 == [g \in {A, B} |-> IF g = A THEN <<{"a1"}>>
                        ELSE <<{"del"}, {"b2"}, {"del"}>>]
=============================================================================
