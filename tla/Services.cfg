SPECIFICATION ServicesSpec
CONSTANTS
    Requests = {r1, r2}
    Usernames = {ann, bob}
    Passwords = {p, q}
    Nobody = Nobody
    SessionTtl = 1
    MaxClock = 1
    MaxUserId = 3
    MaxToken = 3
    MaxRequests = 3
    Never = Never
    NoLicence = NoLicence
    Unreadable = Unreadable
    ExpiringSoonDays = 1
    Days <- DaysMC
    Graces <- GracesMC
    Places = {p1, p2}
    Licences <- LicencesMC
    Hosts <- HostsMC
    NoVerdict = NoVerdict
    NoJob = NoJob
    MaxDay = 1
    MaxChanges = 1
    MaxActivations = 2
    MaxFaults = 1
INVARIANTS
    RevokedNeverAdmitted
    IdentityIsConsistent
    VerdictsAreSound
PROPERTIES
    LicensingCatchesUp
    OneLicenceStays
CHECK_DEADLOCK FALSE
