CONSTANTS
    MaxAbs = 7
    Expr <- AllExprs
    Pred <- AllPreds
    height <- depth
    MaxNat = 7
    B = 2
    Suffix = 4
    MaxStates = 72
    RuleFiles <- SmallRuleFiles
    TableFiles <- SmallTableFiles
SPECIFICATION Spec
INVARIANTS
    AcceptedConverges
    VerdictIsCheckBuild
    FastAgrees
    OraclesAgree
CHECK_DEADLOCK FALSE
