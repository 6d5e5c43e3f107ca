CONSTANTS
    Symbols = {s1, s2, s3}
    AllowedSymbols = {s1, s2, s3}
    UsablePercent = 50
    PortfolioPercent = 50
    PerPositionPercent = 40
    RiskPercent = 5
    Leverage = 3
    MaxPositions = 2
    MinAvailable = 800
    StepSize = 1
    TickSize = 2
    MinNotional = 195
    OffsetBps = 500
    Setups <- MCSetups
    MaxNewOrders = 1
    Balances = {1000}
    MarkPrices = {90}
    AnswerFields <- MCAnswerFields
    FillSizes = {4}
    MaxEntries = 3
    StartsWhileResting = TRUE
SYMMETRY SymbolSymmetry
SPECIFICATION Spec
INVARIANTS NoPyramiding
