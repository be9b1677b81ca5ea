SPECIFICATION OneCalledSpec
CONSTANTS
    p1 = p1
    p2 = p2
    p3 = p3
    t1 = t1
    t2 = t2
    t3 = t3
    A = A
    B = B
    k1 = k1
    k2 = k2
    Null = Null
    TicketId <- Tickets3
    Proc <- Procs2
    Category = {A}
    Counter = {k1}
    Status <- Canonical
    Flow <- BackOneFlow
    Op = {"transition"}
    Routing <- OnlyA
    Priority <- Fifo1
    RenumberStep = 1
    DayLength = 4
    RetentionDays = 1
    ResetTarget = {1}
    MaxClock = 0
    MaxIssued = 3
    MaxRound = 1
SYMMETRY ProcSymmetry
CONSTRAINT BoundedOrders
PROPERTIES
    RequeuesKeepTheRest
CHECK_DEADLOCK FALSE
