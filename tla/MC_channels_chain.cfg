CONSTANTS
    Order <- ch_Order
    Sources <- ch_Sources
    Valid <- ch_Valid
    Event <- ch_Event
    reg <- ch_reg
    sig <- ch_sig
    rho <- id_rho
    f <- ch_f
    Start <- ch_Start
    MaxVersion = 2
    MaxPerformed = 1
SPECIFICATION Spec
CHECK_DEADLOCK FALSE
INVARIANTS StaleRefused ServedSettled SettleConv DistConv
PROPERTIES ImplementsFed
