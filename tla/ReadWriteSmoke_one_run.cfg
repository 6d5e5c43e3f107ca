SPECIFICATION Spec
CONSTANTS
    Runtimes <- MCRuntimes
    MarkPrices = {0, 10, 14}
    LimitPrices = {1, 6, 8, 11, 12, 13, 14}
    TickSize = 2
    Margin = 2
    Positions = {0, 1}
    StatusWords <- MCStatusWords
    None = None
INVARIANTS
    TypeOK
    RestsAtTheMarkSeen
    NoOrderForgotten
    OkMeansCanceled
