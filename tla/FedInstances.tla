---------------------------- MODULE FedInstances ----------------------------
(***************************************************************************)
(* The concrete federations of the Coq development, as values for the      *)
(* constants of Federation.  A state of a registry is a tuple of the       *)
(* components that its part of the instance uses.                          *)
(***************************************************************************)
EXTENDS Integers, Sequences

(* The chain 0 -> 1 -> 2 (ProjectionChains.v): 1 copies the flag of 0, and *)
(* 2 that of 1; Flip sets the flag of 0, Mark sets a second one on 2.      *)
ch_Order   == <<0, 1, 2>>
ch_Sources == [k \in 0..2 |-> IF k = 0 THEN {} ELSE {k - 1}]
ch_Valid   == [k \in 0..2 |-> IF k = 2 THEN BOOLEAN \X BOOLEAN ELSE {<<b>> : b \in BOOLEAN}]
ch_Event   == {"Flip", "Mark"}
ch_Start   == [k \in 0..2 |-> IF k = 2 THEN <<FALSE, FALSE>> ELSE <<FALSE>>]

ch_f(k, z, x) == IF k = 0 THEN x ELSE [x EXCEPT ![1] = z[k - 1][1]]

ch_reg(e) == IF e = "Flip" THEN 0 ELSE 2

ch_sig(e, x) == IF e = "Flip" THEN [x EXCEPT ![1] = TRUE] ELSE [x EXCEPT ![2] = TRUE]

(* Four registries with a shortcut (ProjectionChains.v): 1 copies the flag *)
(* of 0, 2 reads 0 and 1, 3 reads 1 and 2; Mark records on 3 that it shows *)
(* "1 unset while 2 saw both set".  1 starts with a stale flag.            *)
k_Order   == <<0, 1, 2, 3>>
k_Sources == [k \in 0..3 |-> CASE k = 0 -> {} [] k = 1 -> {0}
                               [] k = 2 -> {0, 1} [] k = 3 -> {1, 2}]
k_Valid   == [k \in 0..3 |->
                CASE k < 2 -> {<<b>> : b \in BOOLEAN}
                  [] k = 2 -> BOOLEAN \X BOOLEAN
                  [] k = 3 -> BOOLEAN \X BOOLEAN \X BOOLEAN \X BOOLEAN]
k_Start   == [k \in 0..3 |->
                CASE k = 0 -> <<FALSE>> [] k = 1 -> <<TRUE>>
                  [] k = 2 -> <<FALSE, FALSE>>
                  [] k = 3 -> <<FALSE, FALSE, FALSE, FALSE>>]

k_f(k, z, x) ==
    CASE k = 0 -> x
      [] k = 1 -> <<z[0][1]>>
      [] k = 2 -> <<z[0][1], z[1][1]>>
      [] k = 3 -> <<z[1][1], z[2][1], z[2][2], x[4]>>

k_reg(e) == IF e = "Flip" THEN 0 ELSE 3

\* (Mutation: 1 lags, and it is not asked whether 2 saw it set.)
k_lag(x) == ~ x[1] /\ x[2]

k_bad(x) == ~ x[1] /\ x[2] /\ x[3]

k_sig(e, x) ==
    CASE e = "Flip" -> <<TRUE>>
      [] e = "Mark" -> IF k_bad(x) THEN [x EXCEPT ![4] = TRUE] ELSE x

\* In the chain and in the shortcut a registry repairs nothing by itself.
id_rho(k, x) == x
=============================================================================
