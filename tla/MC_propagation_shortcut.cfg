CONSTANTS
    Order <- k_Order
    Sources <- k_Sources
    Valid <- k_Valid
    Event <- ch_Event
    reg <- k_reg
    sig <- k_sig
    rho <- id_rho
    f <- k_f
    Start <- k_Start
    MaxPerformed = 2
SPECIFICATION DistSpec
CHECK_DEADLOCK FALSE
INVARIANTS XUR DistConv
PROPERTIES ImplementsFed
