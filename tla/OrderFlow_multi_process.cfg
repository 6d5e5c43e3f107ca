CONSTANTS
    None = None
    ExchangeIds = {x1, x2}
    Intents <- OneEntry
    Modes <- TestnetOnly
    CanRestart <- AllButDaemon
    MaxClock = 1
    StatusWords <- FewWords
    Qty = 2
    OneProcess = FALSE
    ListsOpenOrders = TRUE
    StopOnMismatch = FALSE
SYMMETRY ExchangeIdSymmetry
SPECIFICATION Spec
INVARIANTS LocalNeverAhead
PROPERTIES AuditComplete ImplementsOrderMirror
CHECK_DEADLOCK TRUE
