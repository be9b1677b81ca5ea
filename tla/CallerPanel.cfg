SPECIFICATION MidDaySpec
CONSTANTS
    t1 = t1
    t2 = t2
    Ticket = {t1, t2}
    a = a
    b = b
    c = c
    Category = {a, b, c}
    Null = Null
    Mine = k1
    Other = k2
    Serves <- ServesMC
    Flow <- FlowMC
    Custom = {}
    MaxReads = 2
    MaxCommits = 2
    MaxCalmCommits = 4
    MaxTaps = 2
    MaxLosses = 1
    MaxMoves = 3
INVARIANTS
    PanelIsWellFormed
    CalmPanelIsExact
    StaleIsFetchedUnlessBatched
CHECK_DEADLOCK FALSE
