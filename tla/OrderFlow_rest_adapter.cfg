CONSTANTS
    None = None
    ExchangeIds = {x1}
    Intents <- OneEntry
    Modes <- TestnetOnly
    CanRestart <- AllButDaemon
    MaxClock = 1
    StatusWords <- EveryWord
    Qty = 2
    OneProcess = FALSE
    ListsOpenOrders = FALSE
    StopOnMismatch = FALSE
SPECIFICATION Spec
PROPERTIES AuditComplete
CHECK_DEADLOCK TRUE
