CONSTANTS
    A = A
    B = B
    Source = {A, B}
    Author = A
    InitialBody = "x0"
    Deleted = "del"
    Body <- Bodies
    Direction <- PushAndPull
    Skew <- NoSkew
    Program <- P8
    MaxInflight = 2
    RecheckTombstonePath = FALSE
SPECIFICATION Spec
CHECK_DEADLOCK FALSE
INVARIANTS QuiescentAgreement
