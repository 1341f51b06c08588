CONSTANTS
    MaxAbs = 15
    Depth = 3
    Machines <- AllMachines
    Expr <- AllExprs
    Pred <- AllPreds
    height <- depth
    Run = {r1, r2}
    State <- AllStates
    Event <- AllEvents
    Buffer <- AllBuffers
    Start <- AllStarts
    apply <- m_apply
    rho <- m_rho
    rho_star <- m_rho_star
    valid <- m_valid
    Phi <- m_Phi
    enabled <- m_enabled
SPECIFICATION Spec
CHECK_DEADLOCK FALSE
INVARIANTS Converged SameEventsSameState RuntimeIsModel
