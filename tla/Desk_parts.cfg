SPECIFICATION DeskSpec
CONSTANTS
    Ids = {i1, i2}
    Qty = 2
    MaxWait = 1
    Runtimes <- MCRuntimes
    Figures <- MCFigures
    Amounts = {0, 20, 40, 60, 100}
    Notionals = {0, 20, 60}
    Rates = {50, 51, 100, 101}
    Fundings <- MCFundings
    None = None
    Unknown = Unknown
SYMMETRY IdSymmetry
INVARIANTS
    TypeOK
    FillsAgreeUnlessDisputed
    RemainderGoes
    AuditTellsLive
PROPERTIES
    StopsFollowLosses
    StressNeverEases
