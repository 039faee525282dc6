SPECIFICATION ServicesSpec
CONSTANTS
    s1 = s1
    s2 = s2
    q1 = q1
    q2 = q2
    w1 = w1
    w2 = w2
    k1 = k1
    l1 = l1
    b1 = b1
    u1 = u1
    u2 = u2
    u3 = u3
    t1 = t1
    t2 = t2
    t3 = t3
    Sources = {s1, s2}
    Requests = {q1, q2}
    Workers = {w1, w2}
    Offers <- SmallOffers
    NoKey = NoKey
    MaxSources = 1
    MaxBytes = 1
    WebSize = 1
    MaxVersions = 2
    JobAttempts = 2
    MaxFaults = 1
    NoOne = NoOne
    Devices = {s1, s2}
    Subs = {w1, w2}
    Users = {u1, u2, u3}
    Tokens = {t1, t2, t3}
    Calls = {q1, q2}
    Routes <- SmallRoutes
    Limit <- SmallLimit
    Window = 2
    LastTime = 4
    MaxTries = 3
    Entries <- SmallEntries
    StartDates <- SmallDates
    Year0 = 2023
    MaxPaid = 4
INVARIANTS
    ServicesTypeOK
    ReadyIsReadable
    NothingLeftBehind
    DeletionIsOwed
    AccountsConverge
    ReuseRevokes
    WindowBound
    SoldIsHonoured
PROPERTIES
    QuotaOvershoot
SYMMETRY Symmetry
CHECK_DEADLOCK FALSE
