SPECIFICATION Spec
CONSTANTS
    Callers = {w1, w2}
    PurgeMargin = 60
    RateLimit = 2
    Skew = 30
    Offsets <- MCOffsets
    MaxDelay = 60
    TickSize = 30
    StartTime = 30
    MaxTime = 330
SYMMETRY Symmetry
INVARIANTS
    TypeOK
    BudgetKept
    CountsExact
    FewRows
