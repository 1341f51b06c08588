CONSTANTS
    A = A
    B = B
    Source = {A, B}
    Author = A
    InitialBody = "x0"
    Deleted = "del"
    Body <- Bodies
    Direction <- PushAndPull
    Skew <- ABehind
    Program <- TwoByTwo
    MaxInflight = 2
    RecheckTombstonePath = FALSE
SPECIFICATION FairSpec
CHECK_DEADLOCK FALSE
INVARIANTS VersionInv
PROPERTIES OwnVersionsOnlyGrow Quiesces
