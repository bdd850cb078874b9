SPECIFICATION PairingFairSpec
CONSTANTS
    Device = {a, k1, k2}
    Approver = a
    Scope = {m}
    Master = m
    Code = {}
    Sid = {x1}
    NoDevice = NoDevice
    NoSession = NoSession
    Watched = p1
    None = None
    Profile = {p1, p2}
    PairingTTL = 1
    CodeTTL = 1
    MaxOpenPairings = 1
    MaxNow = 1
    MATCH_TRIES = 2
    MaxFaults = 1
INVARIANTS EnrolledIsNamed OnlyWhatSheTyped DoneHoldsTheGrant LiveJoinKeepsItsRecord
PROPERTIES HalfMadeGoes
