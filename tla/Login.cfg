\* Small thresholds and windows, so that locks are set, run out and grow
\* within three ticks.
SPECIFICATION MCSpec
CONSTANTS
    i = i
    j = j
    x = x
    m1 = m1
    Account = {a}
    IP = {i, j}
    Actor = {x, y}
    Home <- MCHome
    Grant = {g}
    Threshold = 2
    UserThreshold = 1
    IpThreshold = 3
    AnonThreshold = 1
    Base = 1
    Window = 1
    MaxLock = 3
    MaxEntries = 3
    SweepEvery = 1
    MaxClock = 2
    GrantTTL = 1
    GrantUses = 1
    Tries = 2
    Drift = {0, 1}
    MaxGuess = 2
    MaxAdmin = 1
    Req = {1, 2}
    Callback = {1, 2}
    Machine = {m1, m2}
    Person = {p1}
    Bound <- MCBound
    PendPerMach = 1
    PendMax = 2
    TTL = 1
    Retry = 1
    Wait = 1
    IdToken = TRUE
    MaxTime = 2
    MaxTrouble = 1
    Peer = {1, 2, 3}
    From <- MCFrom
    MaxTotal = 2
    MaxPerIP = 1
INVARIANTS
    LocksAreEarned
    TotpOnce
    GrantWithinUses
    ApprovedIsEarned
    OneFinalAnswer
    PlacesMatchConnections
PROPERTIES
    UnderLockNobodyJoins
    OnlyAFullProofForgives
\* The bounds stop the system, not the code.
CHECK_DEADLOCK FALSE
