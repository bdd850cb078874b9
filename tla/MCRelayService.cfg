SPECIFICATION MCSpec
SYMMETRY Symmetry
CHECK_DEADLOCK FALSE
CONSTANTS
    o1 = o1
    o2 = o2
    m = m
    s = s
    Device = {o1, o2, k}
    Owner <- MCOwners
    Master = m
    Scope = {m, s}
    Code = {c}
    Sid = {x}
    Doc = {f}
    Slot = {r1, r2}
    Grants <- MCGrants
    NoDevice = NoDevice
    NoSession = NoSession
    None = None
    PairingTTL = 1
    CodeTTL = 1
    MaxOpenPairings = 1
    MaxNow = 1
    MaxRequests = 3
    MAX_GRANT_SCOPES = 1
    Ip = {ip1, ip2}
    Global = Global
    Attempt = {a1, a2}
    NoEntry = NoEntry
    MaxFailures = 2
    WindowMs = 2
    LockoutMs = 2
    BurnAfter = 3
    BurnWindow = 5
    SweepAt = 2
    MaxClock = 6
INVARIANTS RevocationTakesHold OneScopePerDocument GrantedSessionsAreLive
INVARIANTS NoOverrun CodesBurnedInTime
PROPERTY LockoutHolds
