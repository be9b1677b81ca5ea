SPECIFICATION BoardsSpec
CONSTANTS
    Ticket = {t1, t2}
    Serving = {t1}
    Counter = {k1}
    Null = Null
    HistoryLimit = 1
    MaxCommits = 2
    MaxLosses = 1
    None = None
    MaxCalls = 3
    MaxProbes = 2
INVARIANTS
    BoardsAreConsistent
PROPERTIES
    BoardConverges
    ImplementsAnnouncer
    TrackedAnnouncementEnds
CHECK_DEADLOCK FALSE
