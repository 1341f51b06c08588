CONSTANTS
    A = A
    B = B
    Source = {A, B}
    Author = A
    InitialBody = "x0"
    Deleted = "del"
    Body <- Bodies
    Direction <- BothPull
    Skew <- ABehind
    Program <- OneDeletes
    MaxInflight = 2
    RecheckTombstonePath = TRUE
SPECIFICATION Spec
CHECK_DEADLOCK FALSE
INVARIANTS QuiescentAgreement NoOverwrittenVersion KnowledgeIsCausal
PROPERTIES ImplementsGossip
