SPECIFICATION SurfacesSpec
CONSTANTS
    Threads = {t1, t2}
    Texts = {A1}
    Settings = {plain, slow}
    Fallback = plain
    NoKnob = NoKnob
    NoSettings = NoSettings
    Torn = Torn
    MaxEntries = 1
    Ttl = 1
    MaxAge = 1
    MaxTime = 1
    MaxAsks = 3
    MaxEdits = 1
    MaxFaults = 1
    SpokenNumbers <- SpokenNumbersMC
    SpokenTickets <- SpokenTicketsMC
    SpokenGaps = {0, 400}
    NoTicket = NoTicket
    NoPort = NoPort
    AutoReturn = 2
    MaxTickets = 3
    MaxKioskFaults = 1
    MaxReloads = 1
    MaxModeChanges = 1
    Absent = Absent
    Malformed = Malformed
    RawPrinters <- RawPrintersMC
    StoreNames <- StoreNamesMC
    HeaderWidths = {4, 5}
    Cols = 3
    Rows = 2
    WidgetIds = {"a", "b", "c"}
    Components = {"wide", "small"}
    WidgetSize <- WidgetSizeMC
    DefaultLayout <- DefaultLayoutMC
    NoLayout = NoLayout
    NoDrag = NoDrag
    NoSave = NoSave
    NoSpot = NoSpot
    MaxForeign = 1
    MaxLayoutFaults = 1
    MaxLayoutEdits = 2
    RawLayouts <- RawLayoutsMC
SYMMETRY SymmetryMC
INVARIANTS
    ClipIsAsAsked
    CacheIsKept
    SettingsAreRecent
    KioskIsConsistent
    DraftIsAccepted
    ReferencesAgree
PROPERTIES
    TicketShownLongEnough
    GhostIsHonoured
CHECK_DEADLOCK FALSE
