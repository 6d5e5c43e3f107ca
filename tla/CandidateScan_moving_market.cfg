SPECIFICATION Spec
CONSTANTS
    MinDaily = 3
    FastPeriod = 2
    SlowPeriod = 3
    Lookback = 2
    AtrPeriod = 2
    StopTenths = 25
    RequireTiming = TRUE
    HourPeriod = 2
    ExtensionTenths = 15
    OffsetBps = 5
    Prices <- MCPrices
    StartPrice = 20
    Histories = {3}
    DailyLimit = 3
    FourLimit = 3
    HourLimit = 3
    HoursPerFour = 2
    FoursPerDay = 2
    MaxHours = 4
    MaxTrades = 3
INVARIANTS
    TypeOK
    CandidateIsTradable
    SidesMirror
PROPERTIES
    StopNeverTightens
    RegimeFollowsPrice
CHECK_DEADLOCK TRUE
