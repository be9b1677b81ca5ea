SPECIFICATION AdminSpec
CONSTANTS
    Waiting = "WAITING"
    DefaultStates <- DefaultStatesMC
    DefaultPairs <- DefaultPairsMC
    FreshNames <- FreshNamesMC
    TypedNames <- TypedNamesMC
    Trimmed <- TrimmedMC
    Stores <- StoresMC
    MaxEdits = 3
    MaxStates = 3
    MaxLinks = 3
    Fields = {"panel", "printer"}
    Values = {v1, v2}
    Numbering = {1, 2}
    CounterCap = 2
    Nothing = Nothing
    MaxConfigEdits = 2
    MaxPuts = 2
    MaxConfigFaults = 1
    MaxCounters = 3
    Tickets = {t1, t2}
    Categories = {c1, c2}
    Counters = {1}
    Days <- DaysMC
    DayStart <- DayStartMC
    DayLength = 1
    Presets = {1, 2}
    MaxRangeDays = 2
    None = None
    MaxNow = 1
    MaxLoads = 2
    Browsers = {b1, b2}
    Alone = b1
    Absent = Absent
    Usernames = {u1}
    Passwords = {p1, p2}
    StandardCodes <- StandardCodesMC
    MaxWizardEdits = 5
    MaxRaceEdits = 3
    MaxFinalizes = 2
    MaxWizardFaults = 1
    MaxRows = 2
    MaxRules = 2
INVARIANTS
    EditorIsConsistent
    SavingKeepsTheFlow
    DocumentSurvives
    RangeAddsUp
    NobodyIsLockedOut
    SetupEndsInside
PROPERTIES
    EditsKeepTheRest
CHECK_DEADLOCK FALSE
