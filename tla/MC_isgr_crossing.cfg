CONSTANTS
    A = A
    B = B
    Source = {A, B}
    Author = A
    InitialBody = "x0"
    Deleted = "del"
    Body <- Bodies
    Direction <- BothPull
    Skew <- NoSkew
    Program <- DeleteRecreate
    MaxInflight = 1
    RecheckTombstonePath = TRUE
SPECIFICATION Spec
CHECK_DEADLOCK FALSE
INVARIANTS QuiescentAgreement
