CONSTANTS
    Keys = {k1, k2}
    Amounts <- ShortToLong
    Tolerance = 1
    MaxMoves = 2
    MaxRestarts = 1
    None = None
SPECIFICATION FairSpec
INVARIANTS TypeOK OnlyFlatRowsStay
PROPERTIES PositionAuditExact DifferenceRaisesSafeMode
CHECK_DEADLOCK FALSE
