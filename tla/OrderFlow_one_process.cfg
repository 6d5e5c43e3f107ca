CONSTANTS
    None = None
    ExchangeIds = {x1, x2}
    Intents <- EntryAndStop
    Modes <- SubmitsOrNot
    CanRestart <- AnyComponent
    MaxClock = 0
    StatusWords <- EveryWord
    Qty = 2
    OneProcess = TRUE
    ListsOpenOrders = TRUE
    StopOnMismatch = TRUE
SYMMETRY ExchangeIdSymmetry
SPECIFICATION Spec
INVARIANTS TypeOK
PROPERTIES EveryOrderIsLicensed AuditExact
CHECK_DEADLOCK TRUE
