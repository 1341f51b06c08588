------------------------------- MODULE Registry ------------------------------
(***************************************************************************)
(* Machines as registries of Rewriting, run by the runtime's arithmetic.   *)
(* States and events carry the machine's name.                             *)
(***************************************************************************)
EXTENDS Rules

CONSTANTS
    Machines,   \* the machines by name, each as the checker sees it
    Depth       \* how many events a start has buffered

Transform == Seq(Nat \X Expr)

\* Only a variable of two values from 0 is ever declared a Boolean.
IsMachine(m) ==
    /\ m \in [go : {FALSE}, doms : Seq(Nat \ {0}), mins : Seq(Int),
              bools : SUBSET Nat,
              invs : Seq([holds : Pred, repair : Transform]),
              evs : Seq([guard : Pred, effect : Transform]),
              declared : BOOLEAN, indep : SUBSET (Nat \X Nat)]
    /\ Len(m.mins) = Len(m.doms)
    /\ \A i \in m.bools : binaryVar(m, i)

ASSUME MachinesAssumption == \A k \in DOMAIN Machines : IsMachine(Machines[k])

ASSUME DepthAssumption == Depth \in Nat

Runtime(k) == [Machines[k] EXCEPT !.go = TRUE]

m_apply(e, s) ==
    IF e[1] = s[1] THEN <<s[1], Fire(Runtime(s[1]), e[2], s[2])>> ELSE s

m_rho(s) == <<s[1], repair1(Runtime(s[1]), s[2])>>

\* The runtime's table of normal forms, one entry for each encoded state.
NormalForms ==
    [k \in DOMAIN Machines |->
        [s \in box(Machines[k]) |-> normalize(Runtime(k), s)]]

m_rho_star(s) == <<s[1], NormalForms[s[1]][s[2]]>>

m_valid(s) == allValid(Runtime(s[1]), s[2])

m_Phi(s) == phiA(Runtime(s[1]), s[2])

\* An event may overtake the events it is independent of (Trace.tequiv).
m_enabled(e, s, B) ==
    e[1] = s[1] /\ \E i \in DOMAIN B :
        /\ B[i] = e
        /\ \A j \in 1 .. i - 1 :
              B[j] # e /\ indepA(Machines[s[1]], B[j][2], e[2])

\* CC1 and CC2 as Governance.v asks for them: at every state of the box.
cc1(m) ==
    \A s \in box(m) : \A a, b \in Events(m) : indepA(m, a, b) =>
        stepI(m, a, stepI(m, b, s)) = stepI(m, b, stepI(m, a, s))

\* (Mutation: any state will do.)
Anything(m) == TRUE

absorbs(m) ==
    \A s \in box(m) : ~ allValid(m, s) => \A e \in Events(m) :
        stepI(m, e, s) = stepI(m, e, repair1(m, s))

\* Certified machines may be repaired atomically; the others may be interleaved.
Certified == {k \in DOMAIN Machines : checkBuild(Machines[k])}

Interleavable ==
    {k \in Certified : cc1(Machines[k]) /\ absorbs(Machines[k])}

Buffers(k, n) == [1 .. n -> {k} \X Events(Machines[k])]

StatesOf(K) == UNION {{k} \X box(Machines[k]) : k \in K}

EventsOf(K) == UNION {{k} \X Events(Machines[k]) : k \in K}

BuffersOf(K) ==
    UNION {UNION {Buffers(k, n) : n \in 0 .. Depth} : k \in K}

AnyStart(K) ==
    UNION {[sigma : {k} \X box(Machines[k]), B : Buffers(k, Depth)] : k \in K}

\* A valid state or the one NewState returns.
DomainOf(K) ==
    {s \in StatesOf(K) : m_valid(s) \/ s[2] = zeroV(Machines[s[1]])}

DomainStart(K) == {c \in AnyStart(K) : c.sigma \in DomainOf(K)}
=============================================================================
