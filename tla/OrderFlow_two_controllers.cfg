CONSTANTS
    None = None
    ExchangeIds = {x1}
    Intents <- OneEntry
    Modes <- TestnetOnly
    CanRestart <- AllButDaemon
    MaxClock = 1
    StatusWords <- EveryWord
    Qty = 2
    OneProcess = FALSE
    ListsOpenOrders = TRUE
    StopOnMismatch = FALSE
SPECIFICATION Spec
PROPERTIES SafeModeBlocksEntries
CHECK_DEADLOCK TRUE
