\* One lock longer than the window stands for the fifth doubling.
SPECIFICATION MCSpec
CONSTANTS
    i = i
    j = j
    x = x
    m1 = m1
    Account = {a}
    IP = {i, j}
    Actor = {x, y}
    Home <- MCHome
    Grant = {g}
    Threshold = 2
    UserThreshold = 2
    IpThreshold = 3
    AnonThreshold = 1
    Base = 2
    Window = 1
    MaxLock = 3
    MaxEntries = 3
    SweepEvery = 1
    MaxClock = 2
    GrantTTL = 2
    GrantUses = 1
    Tries = 2
    Drift = {0, 1}
    MaxGuess = 3
    MaxAdmin = 0
    Req = {1, 2}
    Callback = {1, 2}
    Machine = {m1, m2}
    Person = {p1}
    Bound <- MCBound
    PendPerMach = 1
    PendMax = 2
    TTL = 1
    Retry = 1
    Wait = 1
    IdToken = TRUE
    MaxTime = 2
    MaxTrouble = 1
    Peer = {1, 2, 3}
    From <- MCFrom
    MaxTotal = 2
    MaxPerIP = 1
PROPERTY LockStands
CHECK_DEADLOCK FALSE
