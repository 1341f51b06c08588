CONSTANTS
    Half = 16
    AllowUnary = {"ev", "od", "swapper", "nth_error", "compose_n", "mkfs", "loop"}
    Programs <- AllPrograms
    Width = 5
    MaxExponent = 5
    MaxUnaryExponent = 2
SPECIFICATION Spec
INVARIANTS
    GoMatchesRocq
    TailCallsLoop
    RocqIsExact
    ExactOrStopped
    StopsOnlyOutside
