CONSTANTS
    A = A
    B = B
    Source = {A, B}
    Author = A
    InitialBody = "x0"
    Deleted = "del"
    Body <- Bodies
    Direction <- PushAndPull
    Skew <- BBehind
    Program <- LiveOnly
    MaxInflight = 2
    RecheckTombstonePath = FALSE
SPECIFICATION FairSpec
CHECK_DEADLOCK FALSE
INVARIANTS QuiescentAgreement LastWriteWins
PROPERTIES EventuallyInSync KnowledgeNeverShrinks
