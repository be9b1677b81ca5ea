SPECIFICATION Spec
CONSTANTS
    p1 = p1
    p2 = p2
    p3 = p3
    t1 = t1
    t2 = t2
    t3 = t3
    A = A
    B = B
    k1 = k1
    k2 = k2
    Null = Null
    TicketId <- Tickets2
    Proc <- Procs2
    Category = {A}
    Counter = {k1}
    Status <- Canonical
    Flow <- DefaultFlow
    Op = {"create", "callNext", "reannounce", "reset", "cleanup"}
    Routing <- OnlyA
    Priority <- Fifo1
    RenumberStep = 1
    DayLength = 1
    RetentionDays = 1
    ResetTarget = {1}
    MaxClock = 2
    MaxIssued = 2
    MaxRound = 2
SYMMETRY RequestSymmetry2
INVARIANTS
    NoTicketLost
    OnlyCommittedAnnounced
CHECK_DEADLOCK FALSE
