SPECIFICATION Spec
CONSTANTS
    Bars = {3, 4}
    StopDistance = 2
    Targets <- MCTargets
    Fractions <- MCFractions
    TimeStopBars = 2
    Offsets <- MCOffsets
INVARIANTS
    TypeOK
    ResultWithinPlan
    LadderTakenInOrder
    ReasonFitsResult
    TradesDoNotOverlap
    DrawdownIsWorstFall
CHECK_DEADLOCK FALSE
