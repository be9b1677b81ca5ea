SPECIFICATION ConfigurationSpec
CONSTANTS
    p1 = p1
    p2 = p2
    A = A
    B = B
    a = a
    b = b
    k1 = k1
    k2 = k2
    midnight = midnight
    noon = noon
    local = local
    utc = utc
    Null = Null
    Proc <- Procs2
    CategoryId = {a, b}
    Code = {A, B}
    Counter = {k1, k2}
    Policy <- Policies
    Draft <- Edits
    MaxSaves = 3
    Trim <- TrimMC
    Defaults <- Base
    CronTexts = {"midnight"}
    ZoneTexts = {"UTC", "WIB"}
    HostZone = "WIB"
    CategoryCodes = {"A"}
    IdOf <- IdOfMC
    Bodies <- BodiesMC
    TtsDrafts <- DraftsMC
INVARIANTS
    StoreIsConsistent
    ScheduleFollowsPolicy
    DocumentTravels
PROPERTIES
    LoneSaveReplaces
    EverySaveEnds
CHECK_DEADLOCK FALSE
